---- MODULE Spec2Model ----
(***************************************************************************)
(* A model of the datacollect crates: the eBay search crawler              *)
(* (Product::search, Product::by_id) and the helpers it uses.              *)
(*                                                                         *)
(* Texts are sequences of one-character strings.  Option<T> is a record    *)
(* with a field `some`; Result<T> is a record with a field `tag`.          *)
(***************************************************************************)
EXTENDS Integers, Sequences, FiniteSets, TLC

(***************************************************************************)
(* Bounds of the model.                                                    *)
(***************************************************************************)
\* listing pages the crawler may request before the model stops following it
MaxPage == 3
\* granularity of the clock, in milliseconds
TickMs == 300

(***************************************************************************)
(* Program constants.                                                      *)
(***************************************************************************)
\* Duration::from_millis(600), the sleep joined with every detail fetch
DelayMs == 600
\* futures::stream::iter(1..): the first page number
FirstPage == 1

Min(a, b) == IF a < b THEN a ELSE b
Max(a, b) == IF a > b THEN a ELSE b

None == [some |-> FALSE]
Some(v) == [some |-> TRUE, val |-> v]
Ok(v) == [tag |-> "Ok", val |-> v]
Err(m) == [tag |-> "Err", val |-> [msg |-> m]]
Pending == [tag |-> "Pending"]

\* find_map over a sequence of Options: the first that is Some
first_some(opts) ==
    LET hits == {i \in 1..Len(opts) : opts[i].some}
    IN  IF hits = {} THEN None
        ELSE opts[CHOOSE i \in hits : \A j \in hits : i <= j]

(***************************************************************************)
(* common::has_hidden_word: a left-to-right fold over the haystack whose   *)
(* accumulator is the part of the needle still to be found.                *)
(***************************************************************************)
\* char::len_utf8: the characters of the model that take two bytes in a &str
TwoByteChars == {"é"}

len_utf8(c) == IF c \in TwoByteChars THEN 2 ELSE 1

\* &acc[1..] cuts one BYTE: it is the rest of the needle when the first
\* character is one byte wide, and a panic (byte index 1 is not a char
\* boundary) when it is wider.
slice_from_byte_1(acc) ==
    IF len_utf8(Head(acc)) = 1
    THEN [rest |-> Tail(acc), panicked |-> FALSE]
    ELSE [rest |-> acc, panicked |-> TRUE]

\* the fold closure; a panic unwinds through the remaining steps
hidden_word_step(acc, c) ==
    IF acc.panicked THEN acc
    ELSE IF acc.rest = <<>> THEN acc
    ELSE IF c = Head(acc.rest) THEN slice_from_byte_1(acc.rest)
    ELSE acc

RECURSIVE hidden_word_fold(_, _)
hidden_word_fold(acc, haystack) ==
    IF haystack = <<>> THEN acc
    ELSE hidden_word_fold(hidden_word_step(acc, Head(haystack)), Tail(haystack))

\* the fold started on the whole needle
hidden_word_scan(needle, haystack) ==
    hidden_word_fold([rest |-> needle, panicked |-> FALSE], haystack)

\* whether the call panics instead of returning
hidden_word_panics(needle, haystack) ==
    hidden_word_scan(needle, haystack).panicked

\* the value the call returns (.is_empty() of the fold's result) when it
\* returns
has_hidden_word(needle, haystack) ==
    hidden_word_scan(needle, haystack).rest = <<>>

\* the literal "Sponsored" of the search closure
SponsoredWord == <<"S", "p", "o", "n", "s", "o", "r", "e", "d">>

(***************************************************************************)
(* The listing documents the site may answer with.  An .s-item entry has   *)
(* the href values of its descendants, in document order, and the texts    *)
(* of its .s-item__detail spans.  A link is the outcome of RE_ITM on the   *)
(* href: whether it matches, and whether the capture parses as a u64.      *)
(***************************************************************************)
NoLink == [itm |-> FALSE, numeric |-> FALSE, id |-> 0]
WordLink == [itm |-> TRUE, numeric |-> FALSE, id |-> 0]
ItmLink(id) == [itm |-> TRUE, numeric |-> TRUE, id |-> id]

TextObfuscated ==
    <<"d", "d", "S", "Q", "p", "O", "o", "n", "h", "s", "o", "r", "t", "i", "e", "d">>
TextSponsore == <<"S", "p", "o", "n", "s", "o", "r", "e">>
TextShipping == <<"F", "r", "e", "e">>

EntrySponsored(id) ==
    [links |-> <<NoLink, ItmLink(id)>>, details |-> <<TextShipping, TextObfuscated>>]
EntryPlain(id) ==
    [links |-> <<WordLink, ItmLink(id), ItmLink(id + 1)>>, details |-> <<TextSponsore>>]
EntryNoId == [links |-> <<NoLink, WordLink>>, details |-> <<TextObfuscated>>]

DocNoMain == [main |-> FALSE, items |-> <<>>]
DocEmpty == [main |-> TRUE, items |-> <<>>]
DocOne == [main |-> TRUE, items |-> <<EntrySponsored(11)>>]
DocTwo == [main |-> TRUE, items |-> <<EntryPlain(21), EntryNoId, EntrySponsored(23)>>]

ListingResponses ==
    {[net |-> FALSE, doc |-> DocNoMain]}
        \cup {[net |-> TRUE, doc |-> d] : d \in {DocNoMain, DocEmpty, DocOne, DocTwo}}

(***************************************************************************)
(* The id of an entry: the first descendant whose href matches RE_ITM and  *)
(* whose capture parses as a number (find_map).                            *)
(***************************************************************************)
RECURSIVE first_item_id(_)
first_item_id(links) ==
    IF links = <<>> THEN None
    ELSE IF Head(links).itm /\ Head(links).numeric THEN Some(Head(links).id)
    ELSE first_item_id(Tail(links))

\* sponsored_of with all() in the place of any()
sponsored_of_all(details) ==
    \A k \in 1..Len(details) : has_hidden_word(SponsoredWord, details[k])

\* any(|e| has_hidden_word("Sponsored", e.text_contents()))
sponsored_of(details) ==
    \E k \in 1..Len(details) : has_hidden_word(SponsoredWord, details[k])

\* collect_ids with the entries pushed to the front of the list
RECURSIVE collect_ids_reversed(_, _)
collect_ids_reversed(items, pos) ==
    IF pos > Len(items) THEN <<>>
    ELSE LET id == first_item_id(items[pos].links)
         IN  collect_ids_reversed(items, pos + 1)
             \o (IF id.some
                    THEN <<[id |-> id.val,
                            sponsored |-> sponsored_of(items[pos].details),
                            pos |-> pos]>>
                    ELSE <<>>)

\* filter_map over the .s-item entries, collected in document order;
\* pos is the position of the entry in the document
RECURSIVE collect_ids(_, _)
collect_ids(items, pos) ==
    IF pos > Len(items) THEN <<>>
    ELSE LET id == first_item_id(items[pos].links)
         IN  (IF id.some
                 THEN <<[id |-> id.val,
                         sponsored |-> sponsored_of(items[pos].details),
                         pos |-> pos]>>
                 ELSE <<>>)
             \o collect_ids(items, pos + 1)

\* the async block of the page closure, from the response to `ids`
parse_listing(resp) ==
    IF ~resp.net THEN Err("request failed")
    ELSE IF ~resp.doc.main THEN Err("could not find main content")
    ELSE Ok(collect_ids(resp.doc.items, 1))

(***************************************************************************)
(* common: Currency, parse_dollars and Money.  A text is a sequence of     *)
(* characters; the character classes are those of char::is_numeric,        *)
(* char::is_whitespace, char::is_alphabetic and char::to_lowercase on the  *)
(* characters of the model.                                                *)
(***************************************************************************)
AsciiDigits == <<"0", "1", "2", "3", "4", "5", "6", "7", "8", "9">>

is_ascii_digit(c) == \E i \in 1..Len(AsciiDigits) : AsciiDigits[i] = c

\* char::is_numeric: the ASCII digits and the other Unicode numerals
OtherNumerals == {"½"}
is_numeric(c) == is_ascii_digit(c) \/ c \in OtherNumerals

is_whitespace(c) == c \in {" "}

UpperCase == <<"U", "S", "D", "X">>
LowerCase == <<"u", "s", "d", "x">>

is_alphabetic(c) ==
    \E i \in 1..Len(UpperCase) : c = UpperCase[i] \/ c = LowerCase[i]

to_lowercase(c) ==
    IF \E i \in 1..Len(UpperCase) : c = UpperCase[i]
    THEN LowerCase[CHOOSE i \in 1..Len(UpperCase) : c = UpperCase[i]]
    ELSE c

\* An f64 that a decimal numeral of at most 15 significant digits parses to
\* is written as that numeral: mant / 10^scale without trailing fraction
\* zeros.  Numerals that short parse to distinct f64 values, so equality of
\* the numerals is equality of the f64 values.
RECURSIVE normalise(_)
normalise(d) ==
    IF d.scale > 0 /\ d.mant % 10 = 0
    THEN normalise([mant |-> d.mant \div 10, scale |-> d.scale - 1])
    ELSE d

digit_value(c) == (CHOOSE i \in 1..Len(AsciiDigits) : AsciiDigits[i] = c) - 1

RECURSIVE digits_value(_)
digits_value(digits) ==
    IF digits = <<>> THEN 0
    ELSE 10 * digits_value(SubSeq(digits, 1, Len(digits) - 1))
         + digit_value(digits[Len(digits)])

\* the numeral up to its second '.', parsed
parse_f64_up_to_second_dot(t) ==
    LET dots == {k \in 1..Len(t) : t[k] = "."}
        cut == IF Cardinality(dots) > 1
               THEN SubSeq(t, 1, (CHOOSE k \in dots :
                        Cardinality({j \in dots : j < k}) = 1) - 1)
               ELSE t
        first == {k \in 1..Len(cut) : cut[k] = "."}
    IN  IF \E k \in 1..Len(cut) : ~is_ascii_digit(cut[k]) /\ cut[k] # "."
        THEN None
        ELSE IF \A k \in 1..Len(cut) : cut[k] = "."
        THEN None
        ELSE Some(normalise(
                 [mant |-> digits_value(SelectSeq(cut, is_ascii_digit)),
                  scale |-> IF first = {} THEN 0
                            ELSE Len(cut) - (CHOOSE k \in first : TRUE)]))

\* str::parse::<f64> on a text of numerals and '.': ASCII digits with at
\* most one '.', and at least one digit ("5." and ".5" parse, "." and ""
\* do not)
parse_f64(t) ==
    LET dots == {k \in 1..Len(t) : t[k] = "."}
    IN  IF \E k \in 1..Len(t) : ~is_ascii_digit(t[k]) /\ t[k] # "."
        THEN None
        ELSE IF Cardinality(dots) > 1
        THEN None
        ELSE IF \A k \in 1..Len(t) : t[k] = "."
        THEN None
        ELSE Some(normalise(
                 [mant |-> digits_value(SelectSeq(t, is_ascii_digit)),
                  scale |-> IF dots = {} THEN 0
                            ELSE Len(t) - (CHOOSE k \in dots : TRUE)]))

\* .filter(|c| c.is_numeric() || *c == '.')
kept_char(c) == is_numeric(c) \/ c = "."

\* the filter dropping '.' as well
parse_dollars_digits_only(s) == parse_f64(SelectSeq(s, is_numeric))

parse_dollars(s) == parse_f64(SelectSeq(s, kept_char))

\* str::split: the pieces between the separator characters, empty ones
\* included
RECURSIVE split(_, _)
split(text, seps) ==
    IF text = <<>> THEN << <<>> >>
    ELSE LET rest == split(Tail(text), seps)
         IN  IF Head(text) \in seps
             THEN << <<>> >> \o rest
             ELSE << <<Head(text)>> \o Head(rest) >> \o Tail(rest)

\* enum Currency and its Display
USD == "USD"
display_currency(cur) == <<"U", "S", "D">>

\* Currency::from_abbreviation: lower-cased, alphabetic characters only
from_abbreviation(s) ==
    LET lowered == [k \in 1..Len(s) |-> to_lowercase(s[k])]
        letters == SelectSeq(lowered, is_alphabetic)
    IN  IF letters \in {<<>>, <<"u", "s">>, <<"u", "s", "d">>}
        THEN Some(USD)
        ELSE None

\* the separator characters of s for a predicate-driven str::split
whitespace_in(s) == {s[k] : k \in {j \in 1..Len(s) : is_whitespace(s[j])}}
numerals_in(s) == {s[k] : k \in {j \in 1..Len(s) : is_numeric(s[j])}}

\* Currency::from_price
from_price(s) ==
    LET pieces == split(s, whitespace_in(s) \cup numerals_in(s))
    IN  first_some([k \in 1..Len(pieces) |->
                       IF pieces[k] # <<>> THEN from_abbreviation(pieces[k])
                       ELSE None])

\* struct Money(Currency, f64)
Money(cur, amount) == [currency |-> cur, amount |-> amount]

\* only the first whitespace-separated token is tried
find_price_first_token(s) ==
    LET pieces == split(s, whitespace_in(s))
    IN  IF pieces[1] # <<>> THEN parse_dollars(pieces[1]) ELSE None

\* Money::from_str: the first whitespace-separated token that parses
find_price(s) ==
    LET pieces == split(s, whitespace_in(s))
    IN  first_some([k \in 1..Len(pieces) |->
                       IF pieces[k] # <<>> THEN parse_dollars(pieces[k])
                       ELSE None])

\* a missing price read as 0 instead of an error
from_str_zero_default(s) ==
    LET cur == IF from_price(s).some THEN from_price(s).val ELSE USD
        price == find_price(s)
    IN  IF price.some THEN Ok(Money(cur, price.val))
        ELSE Ok(Money(cur, [mant |-> 0, scale |-> 0]))

\* Money::from_str
from_str(s) ==
    LET cur == IF from_price(s).some THEN from_price(s).val ELSE USD
        price == find_price(s)
    IN  IF price.some THEN Ok(Money(cur, price.val))
        ELSE Err("failed to find price")

\* a microdata scope, as Scope::get_value sees it: the value of the first
\* itemprop="price" and itemprop="priceCurrency" descendant, if any
Scope(price, priceCurrency) ==
    [kind |-> "scope", price |-> price, priceCurrency |-> priceCurrency]

\* try_from that gives up on a priceCurrency outside the table
try_from_known_currency_only(scope) ==
    IF ~scope.price.some
    THEN Err("could not get price of item through schema.org microdata")
    ELSE LET cur == IF scope.priceCurrency.some
                    THEN from_abbreviation(scope.priceCurrency.val)
                    ELSE None
             dollars == parse_dollars(scope.price.val)
         IN  IF ~cur.some THEN Err("unknown currency")
             ELSE IF dollars.some THEN Ok(Money(cur.val, dollars.val))
             ELSE Err("could not parse currency amount")

\* TryFrom<Scope> for Money
try_from(scope) ==
    IF ~scope.price.some
    THEN Err("could not get price of item through schema.org microdata")
    ELSE LET cur == IF scope.priceCurrency.some
                    THEN from_abbreviation(scope.priceCurrency.val)
                    ELSE None
         IN  IF cur.some
             THEN LET dollars == parse_dollars(scope.price.val)
                  IN  IF dollars.some THEN Ok(Money(cur.val, dollars.val))
                      ELSE Err("could not parse currency amount")
             ELSE from_str(scope.price.val)

(***************************************************************************)
(* Product::by_id on the response to the request for item `id`.  The       *)
(* response is a failed send, a failed body read, or a page.  A page has   *)
(*   title:  the children of #itemTitle in document order, each an         *)
(*           element, a text node that trims to nothing, or a text node    *)
(*           with text (None without the anchor);                          *)
(*   seller: under .si-content, the a[href] links in document order, each  *)
(*           the capture of RE_USR on its href, and the text of #si-fb as  *)
(*           the capture of RE_PERCENT on it (None without the anchor);    *)
(*   mainPrice, viPrice: the microdata scope of the first .mainPrice and   *)
(*           .vi-price element.                                            *)
(* The title text of the page of item `id` is written as `id`.             *)
(***************************************************************************)
RespNetErr == [net |-> "send failed"]
RespBodyErr == [net |-> "body failed"]
ItemPage(title, seller, mainPrice, viPrice) ==
    [net |-> "ok", title |-> title, seller |-> seller,
     mainPrice |-> mainPrice, viPrice |-> viPrice]

SellerInfo(links, fb) == [links |-> links, fb |-> fb]

RespFull ==
    ItemPage(Some(<<"element", "text">>),
             Some(SellerInfo(<<None, Some("alice")>>, Some(Some(<<"9", "9", ".", "5">>)))),
             Some(Scope(Some(<<"$", "5", ".", "5", "0">>), None)),
             None)

\* the responses a detail request of the crawler may get
DetailResponses == {RespNetErr, RespFull}

\* the title read from every descendant text of the anchor
title_of_descendants(id, resp) ==
    IF ~resp.title.some THEN None
    ELSE IF \E k \in 1..Len(resp.title.val) : resp.title.val[k] # "blank"
    THEN Some(id)
    ELSE None

\* select_first("#itemTitle") .. children().find_map(..): the first text
\* child that does not trim to nothing
title_of(id, resp) ==
    IF ~resp.title.some THEN None
    ELSE IF \E k \in 1..Len(resp.title.val) : resp.title.val[k] = "text"
    THEN Some(id)
    ELSE None

\* percent.parse::<f64>().ok()? * 0.01
hundredth(d) == normalise([mant |-> d.mant, scale |-> d.scale + 2])

\* the inner try block of the seller: #si-fb under .si-content, RE_PERCENT
feedback_of(info) ==
    IF ~info.fb.some THEN None
    ELSE IF ~info.fb.val.some THEN None
    ELSE IF ~parse_f64(info.fb.val.val).some THEN None
    ELSE Some(hundredth(parse_f64(info.fb.val.val).val))

\* the try block of the seller: .si-content, the first link RE_USR matches
seller_of(resp) ==
    IF ~resp.seller.some THEN None
    ELSE LET name == first_some(resp.seller.val.links)
         IN  IF ~name.some THEN None
             ELSE Some([name |-> name.val, feedback |-> feedback_of(resp.seller.val)])

\* the price read only when the seller was found
price_of_after_seller(resp) ==
    LET anchor == IF resp.mainPrice.some THEN resp.mainPrice ELSE resp.viPrice
    IN  IF ~seller_of(resp).some THEN None
        ELSE IF ~anchor.some THEN None
        ELSE IF try_from(anchor.val).tag # "Ok" THEN None
        ELSE Some(try_from(anchor.val).val)

\* the try block of the price: .mainPrice, or else .vi-price, as a Money
price_of(resp) ==
    LET anchor == IF resp.mainPrice.some THEN resp.mainPrice ELSE resp.viPrice
    IN  IF ~anchor.some THEN None
        ELSE IF try_from(anchor.val).tag # "Ok" THEN None
        ELSE Some(try_from(anchor.val).val)

by_id(id, resp) ==
    IF resp.net = "send failed" THEN Err("request failed")
    ELSE IF resp.net = "body failed" THEN Err("reading the body failed")
    ELSE IF ~title_of(id, resp).some THEN Err("trying to get title")
    ELSE Ok([name |-> title_of(id, resp).val,
             seller |-> seller_of(resp),
             price |-> price_of(resp),
             sponsored |-> None])

(***************************************************************************)
(* The state of one Product::search call and of its consumer.              *)
(***************************************************************************)
VARIABLES
    pc,          \* where the stream is: "idle" (an item or nothing yet handed over,
                 \* waiting for the consumer to poll), "poll_outer", "poll_inner",
                 \* "listing", "detail", "done", "dropped"
    cursor,      \* the next number of iter(1..)
    page,        \* the page of the running page closure (0 before the first)
    ok,          \* ok[p]: the flag the closure of page p created
    ids,         \* the ids collected from the current page
    idx,         \* the next position of iter(ids)
    hasInner,    \* whether Flatten holds an inner stream
    futRes,      \* the output of the by_id future inside join!, or Pending
    sleepLeft,   \* milliseconds left of the sleep inside join!
    sinceDetail, \* milliseconds since the last detail fetch started, up to DelayMs
    lastGap,     \* time between the last two detail starts, -1 when fewer than two
    listReqs,    \* page numbers of the listing requests sent, in order
    listResp,    \* the responses to them, in order
    checkRead,   \* checkRead[p]: what the check before listing p read
    detailReqs,  \* detail requests started, in order
    detailDone,  \* the outputs of the completed by_id futures, in order
    out,         \* the items handed to the consumer, in order
    outFrom      \* outFrom[i]: <<page, position in the document>> of out[i]

(***************************************************************************)
(* The state of the other operations, each under a specification of its    *)
(* own: the RDAP commands, has_hidden_word, the Money conversions, a       *)
(* Product::by_id call, the Scope queries and a DomainRecord::get call.    *)
(***************************************************************************)
VARIABLES
    lookup,      \* what DomainRecord::get returned to the command
    utcNow,      \* Utc::now() of the command, in nanoseconds
    report,      \* what the command serialized, or NotRun
    hwNeedle,    \* the arguments of a has_hidden_word call
    hwHaystack,
    hwResult,    \* how the call ended, or NotRun
    source,      \* what a Money is converted from: a text or a scope
    money,       \* the outcome of the conversion, or NotRun
    itemResp,    \* the response the site gives a Product::by_id call
    byIdPc,      \* where the call is: "start", "sent", "body", "returned"
    byIdReqs,    \* the requests the call has sent, in order
    byIdOut,     \* what the call returned, or NotRun
    dom,         \* the document tree the Scope queries read
    scopeAt,     \* the node of the Scope that is queried
    asked,       \* the property name (or item type) asked for
    answers,     \* the queries made so far and what each returned
    httpResp,    \* the response the RDAP server gives DomainRecord::get
    getPc,       \* where the call is: "start", "response", "returned"
    getOut,      \* what DomainRecord::get returned, or NotRun
    calls,       \* calls[i]: the state of the i-th of several Product::search streams
    world,       \* what the site answers these streams: listing pages and item pages
    alone,       \* the finished stream of one call that runs alone against world
    site,        \* what the benchmark site answers the two requests of CPUMegaList::get
    megaPc,      \* where the call is: "start", "session", "ready", "data", "body", "returned"
    megaReqs,    \* the requests the call has sent, in order
    megaJar,     \* the cookies the client of the call holds
    megaOut      \* what the call returned, or NotRun

rdapVars == <<lookup, utcNow, report>>
wordVars == <<hwNeedle, hwHaystack, hwResult>>
moneyVars == <<source, money>>
byIdVars == <<itemResp, byIdPc, byIdReqs, byIdOut>>
scopeVars == <<dom, scopeAt, asked, answers>>
getVars == <<httpResp, getPc, getOut>>
twoVars == <<calls, world, alone>>
megaVars == <<site, megaPc, megaReqs, megaJar, megaOut>>
extras == <<byIdVars, scopeVars, getVars, twoVars, megaVars>>
others == <<rdapVars, wordVars, moneyVars, extras>>

crawl == <<cursor, page, ok, ids, idx, hasInner, futRes>>
clock == <<sleepLeft, sinceDetail, lastGap>>
history == <<listReqs, listResp, checkRead, detailReqs, detailDone, out, outFrom>>
search == <<pc, crawl, clock, history>>

vars == <<search, others>>

NotRun == [tag |-> "NotRun"]

\* no RDAP command, has_hidden_word call or Money conversion in this run
RdapUnused == lookup = Ok(None) /\ utcNow = 0 /\ report = NotRun
WordUnused == hwNeedle = <<>> /\ hwHaystack = <<>> /\ hwResult = NotRun
MoneyUnused == source = [kind |-> "text", text |-> <<>>] /\ money = NotRun
ByIdUnused ==
    itemResp = RespNetErr /\ byIdPc = "start" /\ byIdReqs = <<>> /\ byIdOut = NotRun
ScopeUnused == dom = <<>> /\ scopeAt = 0 /\ asked = "" /\ answers = <<>>
GetUnused == httpResp = [sent |-> FALSE] /\ getPc = "start" /\ getOut = NotRun
TwoUnused == calls = <<>> /\ world = NotRun /\ alone = NotRun
MegaUnused ==
    site = NotRun /\ megaPc = "start" /\ megaReqs = <<>> /\ megaJar = {} /\ megaOut = NotRun
ExtrasUnused == ByIdUnused /\ ScopeUnused /\ GetUnused /\ TwoUnused /\ MegaUnused

SearchStart ==
    /\ pc = "idle"
    /\ cursor = FirstPage
    /\ page = 0
    /\ ok = <<>>
    /\ ids = <<>>
    /\ idx = 1
    /\ hasInner = FALSE
    /\ futRes = Pending
    /\ sleepLeft = 0
    /\ sinceDetail = 0
    /\ lastGap = -1
    /\ listReqs = <<>>
    /\ listResp = <<>>
    /\ checkRead = <<>>
    /\ detailReqs = <<>>
    /\ detailDone = <<>>
    /\ out = <<>>
    /\ outFrom = <<>>

Init == SearchStart /\ RdapUnused /\ WordUnused /\ MoneyUnused /\ ExtrasUnused

(***************************************************************************)
(* The consumer polls the stream.  Flatten polls its inner stream when it  *)
(* holds one, and the stream of pages otherwise.                           *)
(***************************************************************************)
\* a flatten that asks the outer stream for the next page at every poll
flatten_poll_outer_first(inner) == "poll_outer"

\* flatten() (ebay.rs:240): a poll goes to the inner stream while there is one
\* and to the outer stream only when the inner one has ended
flatten_poll(inner) == IF inner THEN "poll_inner" ELSE "poll_outer"

Poll ==
    /\ pc = "idle"
    /\ pc' = flatten_poll(hasInner)
    /\ UNCHANGED <<crawl, clock, history>>
    /\ UNCHANGED others

\* the check at the head of the page closure: bail!() unless the flag is set
flag_check(flag) == IF flag THEN Ok("checked") ELSE Err("something failed; pages ended, maybe?")

(***************************************************************************)
(* Flatten polls the stream of pages: iter(1..) yields the next number,    *)
(* the closure creates the flag of the page (and its client), the async    *)
(* block checks the flag and sends the listing request.  An Err output     *)
(* ends the stream in take_while.                                          *)
(***************************************************************************)
\* a range whose iterator passes over the number after the one it yields
range_from_skips(n) == n + 2

\* iter(1..) (ebay.rs:149): next() of the range 1.. yields its start and moves
\* the start on by one
range_from_next(n) == n + 1

NextPage ==
    /\ pc = "poll_outer"
    /\ cursor <= MaxPage
    /\ page' = cursor
    /\ cursor' = range_from_next(cursor)
    /\ ok' = Append(ok, TRUE)
    /\ checkRead' = Append(checkRead, ok'[page'])
    /\ IF flag_check(ok'[page']).tag = "Ok"
          THEN /\ listReqs' = Append(listReqs, page')
               /\ pc' = "listing"
          ELSE /\ listReqs' = listReqs
               /\ pc' = "done"
    /\ UNCHANGED <<ids, idx, hasInner, futRes, clock, listResp, detailReqs, detailDone,
                   out, outFrom>>
    /\ UNCHANGED others

\* take_while_ok without the take_while: an Err output is only filtered out
take_while_ok_skips_errors(r) == "poll_inner"

\* take_while(|r| r.is_ok()): where the stream goes after the page closure's output
take_while_ok(r) == IF r.tag = "Ok" THEN "poll_inner" ELSE "done"

\* listing_error_items with the error passed on as the last item
listing_error_items_reported(r) == <<r>>

\* what the consumer is handed for a page closure that returned Err:
\* take_while and filter_map(|r| r.ok()) pass nothing on
listing_error_items(r) == <<>>

(***************************************************************************)
(* The listing response arrives: the rest of the page closure runs (parse, *)
(* clear the flag, build the inner stream), then take_while, filter_map    *)
(* and Flatten take its output.                                            *)
(***************************************************************************)
\* a fetch that runs as a task of its own and outlives the stream that started it
awaited_as_detached_task(at, pos, sent, answered) ==
    \/ pos = at
    \/ pos = "dropped" /\ Len(sent) > Len(answered)

\* search spawns nothing: the listing fetch (ebay.rs:161-171) and the by_id
\* future under join! (ebay.rs:221) are values held by the stream, so a fetch
\* makes progress only while the stream is suspended at its await
awaited(at, pos, sent, answered) == pos = at

ListingResponse(resp) ==
    /\ awaited("listing", pc, listReqs, listResp)
    /\ listResp' = Append(listResp, resp)
    /\ LET r == parse_listing(resp)
       IN  /\ pc' = take_while_ok(r)
           /\ IF r.tag = "Ok"
                 THEN /\ ok' = [ok EXCEPT ![page] = FALSE]
                      /\ ids' = r.val
                      /\ idx' = 1
                      /\ hasInner' = TRUE
                      /\ UNCHANGED <<out, outFrom>>
                 ELSE /\ out' = out \o listing_error_items(r)
                      /\ outFrom' = outFrom \o [i \in 1..Len(listing_error_items(r)) |-> <<page, 0>>]
                      /\ UNCHANGED <<ok, ids, idx, hasInner>>
    /\ UNCHANGED <<cursor, page, futRes, clock, listReqs, checkRead, detailReqs, detailDone>>
    /\ UNCHANGED others

\* a request that is sent again
request_sent_twice(reqs, req) == Append(Append(reqs, req), req)

\* by_id: client.0.get(link).send(), once per call
request_sent(reqs, req) == Append(reqs, req)

(***************************************************************************)
(* Flatten polls the inner stream: iter(ids) is exhausted (Flatten drops   *)
(* it and polls the stream of pages), or yields the next id and the        *)
(* closure starts the sleep and the by_id future under join!.              *)
(***************************************************************************)
\* a then() that starts the closure of the next id while one is running
then_takes_next_eagerly(pos) == pos \in {"poll_inner", "detail"}

\* iter(ids).then(closure) (ebay.rs:209): the next id is taken from iter(ids)
\* only at a poll that finds no closure future pending
then_takes_next(pos) == pos = "poll_inner"

NextId ==
    /\ then_takes_next(pc)
    /\ IF idx > Len(ids)
          THEN /\ hasInner' = FALSE
               /\ pc' = "poll_outer"
               /\ UNCHANGED <<futRes, clock, detailReqs>>
          ELSE /\ pc' = "detail"
               /\ futRes' = Pending
               /\ sleepLeft' = DelayMs
               /\ lastGap' = IF detailReqs = <<>> THEN -1 ELSE sinceDetail
               /\ sinceDetail' = 0
               /\ detailReqs' = request_sent(detailReqs, [page |-> page, id |-> ids[idx].id])
               /\ UNCHANGED hasInner
    /\ UNCHANGED <<cursor, page, ok, ids, idx, listReqs, listResp, checkRead, detailDone,
                   out, outFrom>>
    /\ UNCHANGED others

\* the response to the detail request arrives and by_id returns
DetailResponse(resp) ==
    /\ awaited("detail", pc, detailReqs, detailDone)
    /\ futRes = Pending
    /\ futRes' = by_id(ids[idx].id, resp)
    /\ detailDone' = Append(detailDone, futRes')
    /\ UNCHANGED <<pc, cursor, page, ok, ids, idx, hasInner, clock, listReqs, listResp,
                   checkRead, detailReqs, out, outFrom>>
    /\ UNCHANGED others

\* join_ready that waits for the fetch alone
join_ready_fetch_only(fut, sleep) == fut # Pending

\* tokio::join!(fut, sleep) completes when both have
join_ready(fut, sleep) == fut # Pending /\ sleep = 0

\* detail_items with the errors filtered out of the stream
detail_items_filtered(res, sponsored) ==
    IF res.tag = "Err" THEN <<>>
    ELSE <<Ok([res.val EXCEPT !.sponsored = Some(sponsored)])>>

\* the items the inner stream yields for a completed join: `?` returns the
\* error as the item, a product is tagged with the flag of its entry
detail_items(res, sponsored) ==
    IF res.tag = "Err" THEN <<res>>
    ELSE <<Ok([res.val EXCEPT !.sponsored = Some(sponsored)])>>

(***************************************************************************)
(* join! completes: the rest of the id closure runs and its output is      *)
(* handed to the consumer.                                                 *)
(***************************************************************************)
JoinDone ==
    /\ pc = "detail"
    /\ join_ready(futRes, sleepLeft)
    /\ ok' = IF futRes.tag = "Ok" THEN [ok EXCEPT ![page] = TRUE] ELSE ok
    /\ LET items == detail_items(futRes, ids[idx].sponsored)
       IN  /\ out' = out \o items
           /\ outFrom' = outFrom \o [i \in 1..Len(items) |-> <<page, ids[idx].pos>>]
    /\ idx' = idx + 1
    /\ futRes' = Pending
    /\ pc' = "idle"
    /\ UNCHANGED <<cursor, page, ids, hasInner, clock, listReqs, listResp, checkRead,
                   detailReqs, detailDone>>
    /\ UNCHANGED others

\* time passes while the stream is suspended or waits for its consumer
Tick ==
    /\ pc \in {"idle", "listing", "detail"}
    /\ \/ sleepLeft > 0
       \/ detailReqs # <<>> /\ sinceDetail < DelayMs
    /\ sleepLeft' = Max(0, sleepLeft - TickMs)
    /\ sinceDetail' = IF detailReqs = <<>> THEN sinceDetail
                      ELSE Min(DelayMs, sinceDetail + TickMs)
    /\ UNCHANGED <<pc, crawl, lastGap, history>>
    /\ UNCHANGED others

\* the consumer drops the stream, and with it every future the stream holds
Drop ==
    /\ pc \in {"idle", "listing", "detail"}
    /\ pc' = "dropped"
    /\ UNCHANGED <<crawl, clock, history>>
    /\ UNCHANGED others

Next ==
    \/ Poll
    \/ NextPage
    \/ \E resp \in ListingResponses : ListingResponse(resp)
    \/ NextId
    \/ \E resp \in DetailResponses : DetailResponse(resp)
    \/ JoinDone
    \/ Tick
    \/ Drop

Spec == Init /\ [][Next]_vars

(***************************************************************************)
(* Vocabulary of the properties.                                           *)
(***************************************************************************)
Pages == 1..Len(listResp)
PageResult(p) == parse_listing(listResp[p])
PageOk(p) == PageResult(p).tag = "Ok"
PageIds(p) == PageResult(p).val
\* the positions of `out` that hold items of page p
ItemsOf(p) == {i \in 1..Len(out) : outFrom[i][1] = p}
\* every id of page p has been fetched and its item handed over
PageConsumed(p) == Cardinality(ItemsOf(p)) = Len(PageIds(p))

\* needle is a subsequence of haystack, decided from the right end
RECURSIVE IsSubseq(_, _)
IsSubseq(needle, haystack) ==
    IF needle = <<>> THEN TRUE
    ELSE IF haystack = <<>> THEN FALSE
    ELSE LET n == Len(needle)
             h == Len(haystack)
         IN  \/ /\ needle[n] = haystack[h]
                /\ IsSubseq(SubSeq(needle, 1, n - 1), SubSeq(haystack, 1, h - 1))
             \/ IsSubseq(needle, SubSeq(haystack, 1, h - 1))

\* C1: when the listing of page 1 is fetched and parsed and holds no id, the
\* stream ends: no item, no detail fetch, no further listing request.
C1_EmptyFirstPageEnds ==
    (Len(listResp) >= 1 /\ PageOk(1) /\ PageIds(1) = <<>>)
        => (listReqs = <<1>> /\ detailReqs = <<>> /\ out = <<>>)

\* C2: when page 1 gave at least one record and the listing of page 2 holds no
\* id, the stream ends after the items of page 1: page 3 is never requested.
C2_EmptySecondPageEnds ==
    (/\ Len(listResp) >= 2
     /\ PageOk(1) /\ PageOk(2)
     /\ PageIds(2) = <<>>
     /\ \E i \in ItemsOf(1) : out[i].tag = "Ok")
        => (Len(listReqs) <= 2 /\ \A i \in 1..Len(out) : outFrom[i][1] = 1)

\* C3: when a listing page holds at least one id and every detail fetch of the
\* page returned an error, no later listing page is requested.
C3_AllErrorsPageEnds ==
    \A p \in Pages :
        (/\ PageOk(p)
         /\ PageIds(p) # <<>>
         /\ PageConsumed(p)
         /\ \A i \in ItemsOf(p) : out[i].tag = "Err")
            => Len(listReqs) <= p

\* C4: a failed listing of page N (request failed, or no main content) is a hard
\* stop: the stream has ended, no listing of a page > N and no detail fetch of a
\* page >= N was started, and the items are those of all ids of the pages < N.
C4_ListingFailureIsHardStop ==
    \A n \in Pages :
        ~PageOk(n)
            => /\ pc = "done"
               /\ listReqs = [k \in 1..n |-> k]
               /\ Len(listResp) = n
               /\ \A k \in 1..Len(detailReqs) : detailReqs[k].page < n
               /\ \A i \in 1..Len(out) : outFrom[i][1] < n
               /\ \A q \in 1..(n - 1) : PageConsumed(q)

C4_Witness ==
    /\ pc = "done"
    /\ Len(listResp) >= 2
    /\ listResp[Len(listResp)].net
    /\ ~PageOk(Len(listResp))
    /\ out # <<>>

\* C5 as stated: the stream holds no error item caused by a failed detail fetch;
\* every item is a successful record.
C5_NoErrorItems == \A i \in 1..Len(out) : out[i].tag = "Ok"

\* C5 amended: every completed detail fetch contributes exactly one item, at its
\* place: a failed fetch its error, a successful one its record.
C5_OneItemPerDetailFetch ==
    /\ Len(out) + (IF futRes # Pending THEN 1 ELSE 0) = Len(detailDone)
    /\ \A i \in 1..Len(out) :
          /\ i <= Len(detailDone)
          /\ out[i].tag = detailDone[i].tag
          /\ detailDone[i].tag = "Err" => out[i] = detailDone[i]
          /\ detailDone[i].tag = "Ok" => out[i].val.name = detailDone[i].val.name

C5_Witness ==
    /\ \E i \in 1..Len(out) : out[i].tag = "Err" /\ out[i].val.msg = "request failed"
    /\ \E i \in 1..Len(out) : out[i].tag = "Ok"

\* C6: the step in which a listing fetch or parse fails hands no item to the
\* consumer; the stream is at its end.
C6_ListingErrorNotEmitted ==
    [][(/\ Len(listResp') > Len(listResp)
        /\ parse_listing(listResp'[Len(listResp')]).tag = "Err")
            => (out' = out /\ pc' = "done")]_vars

C6_Witness ==
    /\ pc = "done"
    /\ listResp # <<>>
    /\ ~listResp[Len(listResp)].net
    /\ Len(out) >= 2

\* C7: items come in page order and, within a page, in document order.
C7_EmissionOrder ==
    \A i, j \in 1..Len(out) :
        i < j => \/ outFrom[i][1] < outFrom[j][1]
                 \/ outFrom[i][1] = outFrom[j][1] /\ outFrom[i][2] < outFrom[j][2]

C7_Witness ==
    \E i, j, k \in 1..Len(out) :
        /\ i < j /\ j < k
        /\ outFrom[i][1] = outFrom[j][1]
        /\ outFrom[j][1] < outFrom[k][1]

\* C8: a detail fetch starts at least DelayMs after the start of the one before,
\* and the item of a detail fetch is produced only when its fetch and its sleep
\* have both finished.
C8_DetailSpacing ==
    /\ lastGap = -1 \/ lastGap >= DelayMs
    /\ Len(out) = Len(detailReqs) => (sleepLeft = 0 /\ Len(detailDone) = Len(detailReqs))

C8_Witness ==
    /\ Len(detailReqs) >= 2
    /\ lastGap >= DelayMs
    /\ detailDone[Len(detailReqs) - 1].tag = "Err"
    /\ Len(out) = Len(detailReqs)

\* C9: the flag read by the check before the listing fetch of page N+1 is the
\* flag the detail fetches of the pages before it wrote.
C9_FlagSharedAcrossPages ==
    \A p \in 2..Len(checkRead) : checkRead[p] = ok[p - 1]

\* C10: a record of the stream has sponsored = Some(b), b the flag of its own
\* listing entry ("Sponsored" is a hidden word of one of its detail spans); a
\* record by_id returns has sponsored = None.
C10_SponsoredFlag ==
    /\ \A i \in 1..Len(out) :
          out[i].tag = "Ok"
              => LET entry == listResp[outFrom[i][1]].doc.items[outFrom[i][2]]
                 IN  /\ first_item_id(entry.links) = Some(out[i].val.name)
                     /\ out[i].val.sponsored =
                            Some(\E k \in 1..Len(entry.details) :
                                     IsSubseq(SponsoredWord, entry.details[k]))
    /\ \A k \in 1..Len(detailDone) :
          detailDone[k].tag = "Ok" => detailDone[k].val.sponsored = None

C10_Witness ==
    /\ \E i \in 1..Len(out) : out[i].tag = "Ok" /\ out[i].val.sponsored = Some(TRUE)
    /\ \E i \in 1..Len(out) : out[i].tag = "Ok" /\ out[i].val.sponsored = Some(FALSE)

(***************************************************************************)
(* modules::rdap: the temporal state engine of a DomainRecord and the CLI  *)
(* commands that ask it.  An event_date is a count of nanoseconds; an      *)
(* event is its action and its date (the actor is never read).             *)
(***************************************************************************)
\* bound: the longest event list of a record
MaxEvents == 2

\* chrono: timestamp_millis() counts whole milliseconds of 1 000 000 ns
NanosPerMilli == 1000000

Event(action, date) == [event_action |-> action, event_date |-> date]

timestamp_millis(date) == date \div NanosPerMilli

\* the key of sort_by_key in events_in_time_backwards
backwards_key(e) == 0 - timestamp_millis(e.event_date)

\* one insertion of the stable sort: e goes behind every element whose key
\* is not greater than its own
RECURSIVE insert_by_key(_, _)
insert_by_key(e, sorted) ==
    IF sorted = <<>> THEN <<e>>
    ELSE IF backwards_key(e) < backwards_key(Head(sorted)) THEN <<e>> \o sorted
    ELSE <<Head(sorted)>> \o insert_by_key(e, Tail(sorted))

\* events.clone() sorted by the key; sort_by_key keeps equal keys in list order
RECURSIVE events_in_time_backwards(_)
events_in_time_backwards(events) ==
    IF events = <<>> THEN <<>>
    ELSE insert_by_key(events[Len(events)],
                       events_in_time_backwards(SubSeq(events, 1, Len(events) - 1)))

\* .filter(|e| &e.event_date < now)
events_before(events, instant) ==
    SelectSeq(events_in_time_backwards(events), LAMBDA e : e.event_date < instant)

\* locked_outcome with the two arms exchanged
locked_outcome_swapped(action) ==
    IF action = "locked" THEN Some(FALSE)
    ELSE IF action = "unlocked" THEN Some(TRUE)
    ELSE None

\* the match of is_locked_at
locked_outcome(action) ==
    IF action = "locked" THEN Some(TRUE)
    ELSE IF action = "unlocked" THEN Some(FALSE)
    ELSE None

\* registered_outcome whose last arm answers false
registered_outcome_other_is_false(action) ==
    IF action \in {"reregistration", "registration", "reinstantiation", "transfer"}
        THEN Some(TRUE)
    ELSE Some(FALSE)

\* the match of is_registered_at
registered_outcome(action) ==
    IF action \in {"reregistration", "registration", "reinstantiation", "transfer"}
        THEN Some(TRUE)
    ELSE IF action \in {"expiration", "deletion"} THEN Some(FALSE)
    ELSE None

is_locked_at(events, instant) ==
    LET prior == events_before(events, instant)
        hit == first_some([i \in 1..Len(prior) |-> locked_outcome(prior[i].event_action)])
    IN  IF hit.some THEN hit.val ELSE FALSE

is_registered_at(events, instant) ==
    LET prior == events_before(events, instant)
        hit == first_some([i \in 1..Len(prior) |-> registered_outcome(prior[i].event_action)])
    IN  IF hit.some THEN hit.val ELSE FALSE

\* is_buyable_at with && in the place of ||
is_buyable_at_both(events, instant) ==
    ~(is_registered_at(events, instant) /\ is_locked_at(events, instant))

is_buyable_at(events, instant) ==
    ~(is_registered_at(events, instant) \/ is_locked_at(events, instant))

(***************************************************************************)
(* The rdap domain commands of the CLI: get(..).await? hands an error on,  *)
(* map(..).unwrap_or(..) answers for an absent record.                     *)
(***************************************************************************)
cmd_json(got) == got

cmd_is_registered(got, instant) ==
    IF got.tag = "Err" THEN got
    ELSE Ok(IF got.val.some THEN is_registered_at(got.val.val.events, instant) ELSE FALSE)

cmd_is_locked(got, instant) ==
    IF got.tag = "Err" THEN got
    ELSE Ok(IF got.val.some THEN is_locked_at(got.val.val.events, instant) ELSE FALSE)

\* cmd_can_purchase with unwrap_or(false), like the other two commands
cmd_can_purchase_false(got, instant) ==
    IF got.tag = "Err" THEN got
    ELSE Ok(IF got.val.some THEN is_buyable_at(got.val.val.events, instant) ELSE FALSE)

cmd_can_purchase(got, instant) ==
    IF got.tag = "Err" THEN got
    ELSE Ok(IF got.val.some THEN is_buyable_at(got.val.val.events, instant) ELSE TRUE)

(***************************************************************************)
(* The records and instants of the RDAP specification.                     *)
(***************************************************************************)
EventActions ==
    {"locked", "unlocked", "registration", "reregistration", "reinstantiation",
     "transfer", "expiration", "deletion", "last changed"}

Millis(t) == t * NanosPerMilli

\* two dates in one millisecond, and a later one
EventDates == {Millis(10), Millis(10) + 500000, Millis(20)}

EventUniverse == {Event(a, d) : a \in EventActions, d \in EventDates}

RECURSIVE SeqsUpTo(_, _)
SeqsUpTo(S, n) ==
    IF n = 0 THEN {<<>>}
    ELSE LET shorter == SeqsUpTo(S, n - 1)
         IN  shorter \cup {Append(q, x) : q \in shorter, x \in S}

\* registration at t = 0, locked at t = 10, unlocked at t = 20 (milliseconds)
ExampleEvents ==
    <<Event("registration", Millis(0)), Event("locked", Millis(10)),
      Event("unlocked", Millis(20))>>

EventLists == SeqsUpTo(EventUniverse, MaxEvents) \cup {ExampleEvents}

Lookups ==
    {Err("request failed"), Ok(None)} \cup {Ok(Some([events |-> l])) : l \in EventLists}

Instants ==
    {Millis(5), Millis(10), Millis(10) + 500000, Millis(15), Millis(20), Millis(25)}

InitRdap ==
    /\ lookup \in Lookups
    /\ utcNow \in Instants
    /\ report = NotRun
    /\ SearchStart /\ WordUnused /\ MoneyUnused /\ ExtrasUnused

CmdJson ==
    /\ report = NotRun
    /\ report' = [cmd |-> "json", out |-> cmd_json(lookup)]
    /\ UNCHANGED <<lookup, utcNow, search, wordVars, moneyVars, extras>>

CmdIsRegistered ==
    /\ report = NotRun
    /\ report' = [cmd |-> "is-registered", out |-> cmd_is_registered(lookup, utcNow)]
    /\ UNCHANGED <<lookup, utcNow, search, wordVars, moneyVars, extras>>

CmdIsLocked ==
    /\ report = NotRun
    /\ report' = [cmd |-> "is-locked", out |-> cmd_is_locked(lookup, utcNow)]
    /\ UNCHANGED <<lookup, utcNow, search, wordVars, moneyVars, extras>>

CmdCanPurchase ==
    /\ report = NotRun
    /\ report' = [cmd |-> "can-purchase", out |-> cmd_can_purchase(lookup, utcNow)]
    /\ UNCHANGED <<lookup, utcNow, search, wordVars, moneyVars, extras>>

NextRdap == CmdJson \/ CmdIsRegistered \/ CmdIsLocked \/ CmdCanPurchase

SpecRdap == InitRdap /\ [][NextRdap]_vars

(***************************************************************************)
(* Vocabulary of the RDAP properties.                                      *)
(***************************************************************************)
Present == lookup.tag = "Ok" /\ lookup.val.some
Absent == lookup.tag = "Ok" /\ ~lookup.val.some
Record == lookup.val.val.events
Ran(cmd) == report # NotRun /\ report.cmd = cmd

\* the events before the instant whose action is one of acts
RelevantBefore(events, instant, acts) ==
    {i \in 1..Len(events) :
        events[i].event_date < instant /\ events[i].event_action \in acts}

\* those of S no other of S is later than
MostRecentOf(events, S) ==
    {i \in S : \A j \in S : events[j].event_date <= events[i].event_date}

\* answer is the outcome of a most recent relevant event, FALSE without one
AnswersMostRecent(answer, events, instant, yes, no) ==
    LET S == RelevantBefore(events, instant, yes \cup no)
    IN  IF S = {} THEN answer = FALSE
        ELSE \E i \in MostRecentOf(events, S) : answer = (events[i].event_action \in yes)

\* C11: is_locked_at answers with the outcome of the most recent event strictly
\* before the instant whose action is locked (true) or unlocked (false), and
\* with false when there is none.
C11_LockedIsMostRecent ==
    (Ran("is-locked") /\ Present)
        => AnswersMostRecent(report.out.val, Record, utcNow, {"locked"}, {"unlocked"})

\* C12: is_registered_at answers with the outcome of the most recent event
\* strictly before the instant whose action is registration, reregistration,
\* reinstantiation, transfer (true) or expiration, deletion (false), and with
\* false when there is none.
C12_RegisteredIsMostRecent ==
    (Ran("is-registered") /\ Present)
        => AnswersMostRecent(report.out.val, Record, utcNow,
                             {"registration", "reregistration", "reinstantiation", "transfer"},
                             {"expiration", "deletion"})

\* C13: is_buyable_at is true exactly when the record is neither registered nor
\* locked at the instant.
C13_BuyableIsNeither ==
    (Ran("can-purchase") /\ Present)
        => (report.out.val <=> (/\ ~is_registered_at(Record, utcNow)
                                /\ ~is_locked_at(Record, utcNow)))

C13_Witness ==
    /\ Ran("can-purchase") /\ Present
    /\ ~report.out.val
    /\ is_locked_at(Record, utcNow)
    /\ ~is_registered_at(Record, utcNow)

\* C14 as stated: for registration at 0, locked at 10, unlocked at 20:
\* locked at 15, not locked at 25, registered at 5, buyable at 25.
C14_ExampleAnswers ==
    (Present /\ Record = ExampleEvents /\ report # NotRun)
        => /\ (report.cmd = "is-locked" /\ utcNow = Millis(15)) => report.out = Ok(TRUE)
           /\ (report.cmd = "is-locked" /\ utcNow = Millis(25)) => report.out = Ok(FALSE)
           /\ (report.cmd = "is-registered" /\ utcNow = Millis(5)) => report.out = Ok(TRUE)
           /\ (report.cmd = "can-purchase" /\ utcNow = Millis(25)) => report.out = Ok(TRUE)

\* C14 amended: the same record is locked at 15, not locked at 25, registered
\* at 5, and not buyable at 25 (it is still registered).
C14_ExampleAnswersAmended ==
    (Present /\ Record = ExampleEvents /\ report # NotRun)
        => /\ (report.cmd = "is-locked" /\ utcNow = Millis(15)) => report.out = Ok(TRUE)
           /\ (report.cmd = "is-locked" /\ utcNow = Millis(25)) => report.out = Ok(FALSE)
           /\ (report.cmd = "is-registered" /\ utcNow = Millis(5)) => report.out = Ok(TRUE)
           /\ (report.cmd = "can-purchase" /\ utcNow = Millis(25)) => report.out = Ok(FALSE)

C14_Witness ==
    /\ Present /\ Record = ExampleEvents
    /\ Ran("can-purchase")
    /\ utcNow = Millis(25)

\* C15: with an absent record the commands report registered = false, locked =
\* false, can-purchase = true; with a present record each reports the engine's
\* predicate at the current instant; a failed lookup reports no answer at all.
C15_DefaultsOnlyWhenAbsent ==
    /\ (Absent /\ Ran("is-registered")) => report.out = Ok(FALSE)
    /\ (Absent /\ Ran("is-locked")) => report.out = Ok(FALSE)
    /\ (Absent /\ Ran("can-purchase")) => report.out = Ok(TRUE)
    /\ (Present /\ Ran("is-registered")) => report.out = Ok(is_registered_at(Record, utcNow))
    /\ (Present /\ Ran("is-locked")) => report.out = Ok(is_locked_at(Record, utcNow))
    /\ (Present /\ Ran("can-purchase")) => report.out = Ok(is_buyable_at(Record, utcNow))
    /\ (lookup.tag = "Err" /\ report # NotRun) => report.out = lookup

C15_Witness ==
    /\ Absent
    /\ Ran("can-purchase")
    /\ report.out = Ok(TRUE)

\* the lists that hold the events of `events` in another order
Reorderings(events) ==
    {[i \in 1..Len(events) |-> events[f[i]]] :
        f \in {g \in [1..Len(events) -> 1..Len(events)] :
                  \A a, b \in 1..Len(events) : a # b => g[a] # g[b]}}

\* C34: the answer of is_locked_at, is_registered_at and is_buyable_at for a
\* record and an instant is the same for every order of the record's event
\* list, also when events share a timestamp or a millisecond
C34_OrderOfListIrrelevant ==
    Present =>
        \A events \in Reorderings(Record) :
            /\ Ran("is-locked") => is_locked_at(events, utcNow) = report.out.val
            /\ Ran("is-registered") => is_registered_at(events, utcNow) = report.out.val
            /\ Ran("can-purchase") => is_buyable_at(events, utcNow) = report.out.val

LockActions == {"locked", "unlocked"}
RegistrationActions ==
    {"registration", "reregistration", "reinstantiation", "transfer", "expiration", "deletion"}

\* the lists left of `events` when some events with an action outside acts
\* are taken out
WithoutSomeOther(events, acts) ==
    {SelectSeq([i \in 1..Len(events) |-> [e |-> events[i], keep |-> i \notin D]],
               LAMBDA x : x.keep) :
        D \in SUBSET {i \in 1..Len(events) : events[i].event_action \notin acts}}

Shortened(events, acts) ==
    {[i \in 1..Len(l) |-> l[i].e] : l \in WithoutSomeOther(events, acts)}

SkipsUnrecognized ==
    Present =>
        /\ Ran("is-locked")
              => \A events \in Shortened(Record, LockActions) :
                    is_locked_at(events, utcNow) = report.out.val
        /\ Ran("is-registered")
              => \A events \in Shortened(Record, RegistrationActions) :
                    is_registered_at(events, utcNow) = report.out.val

\* C35: taking events with an action other than locked / unlocked out of a
\* record (or putting them in) leaves is_locked_at as it is at every instant,
\* the same for is_registered_at and the actions other than its six, and a
\* predicate leaves the event list of the record as it was
C35_UnrecognizedSkipped == [][lookup' = lookup /\ SkipsUnrecognized']_vars

\* is-registered answered true for a record whose latest event before the
\* instant is none of the six
C35_Witness ==
    /\ Present
    /\ Ran("is-registered")
    /\ report.out.val = TRUE
    /\ Len(Record) = 2
    /\ Record[1].event_action = "registration"
    /\ Record[2].event_action = "last changed"
    /\ Record[1].event_date < Record[2].event_date
    /\ Record[2].event_date < utcNow

(***************************************************************************)
(* A call of common::has_hidden_word on its own: the arguments are drawn   *)
(* from every text of at most MaxWordLen characters over WordAlphabet      *)
(* (two one-byte letters and a two-byte one) and from the pairs of         *)
(* tests::test_has_hidden_word.                                            *)
(***************************************************************************)
MaxWordLen == 3

WordAlphabet == {"a", "b"} \cup TwoByteChars

Words == SeqsUpTo(WordAlphabet, MaxWordLen)

\* the (needle, haystack) pairs of tests::test_has_hidden_word
WordExamples ==
    { <<<<"c", "o", "o", "k", "i", "e">>,
        <<"c", "o", "o", "O", "O", "O", "k", "i", "e">>>>,
      <<<<"c", "o", "o", "k", "i", "e">>,
        <<"c", "o", "o", "k", "i", "e">>>>,
      <<<<"c", "o", "o", "k", "i", "e">>,
        <<"4", "2", "3", "T", "G", "R", "c", "o", "A", "F", "o", "G", "R", "k", "H", "i", "D", "S", "D", "G", "R", "T", "e">>>>,
      <<<<"b", "a", "k", "i", "n", "g", " ", "c", "o", "o", "k", "i", "e", "s">>,
        <<"s", "o", "m", "e", " ", "c", "o", "o", "k", "i", "e", " ", "b", "a", "k", "i", "n", "g">>>>,
      <<<<"c", "a", "n", "d", "y", " ", "c", "a", "n", "e", "s">>,
        <<"c", "a", "n", "d", "y">>>> }

WordPairs == (Words \X Words) \cup WordExamples

\* how a call ends
Returned(b) == [tag |-> "Returned", val |-> b]
Panicked == [tag |-> "Panicked"]

InitWord ==
    /\ SearchStart
    /\ ExtrasUnused
    /\ RdapUnused
    /\ MoneyUnused
    /\ \E pair \in WordPairs : hwNeedle = pair[1] /\ hwHaystack = pair[2]
    /\ hwResult = NotRun

\* has_hidden_word(needle, haystack)
CallHasHiddenWord ==
    /\ hwResult = NotRun
    /\ hwResult' = IF hidden_word_panics(hwNeedle, hwHaystack)
                   THEN Panicked
                   ELSE Returned(has_hidden_word(hwNeedle, hwHaystack))
    /\ UNCHANGED <<hwNeedle, hwHaystack, search, rdapVars, moneyVars, extras>>

NextWord == CallHasHiddenWord

SpecWord == InitWord /\ [][NextWord]_vars

\* the call has ended
WordCalled == hwResult # NotRun

\* C16: has_hidden_word(needle, haystack) returns true if and only if needle
\* is a subsequence of haystack, for every needle and haystack over the
\* alphabet (so the empty needle gives true and a haystack that ends before
\* the needle is exhausted gives false).
C16_HiddenWordIsSubsequence ==
    WordCalled => hwResult = Returned(IsSubseq(hwNeedle, hwHaystack))

\* the same equivalence for needles of one-byte characters only, whatever
\* the haystack holds
C16_OneByteNeedles ==
    (WordCalled /\ \A k \in 1..Len(hwNeedle) : len_utf8(hwNeedle[k]) = 1)
        => hwResult = Returned(IsSubseq(hwNeedle, hwHaystack))

\* C37: has_hidden_word returns a boolean for every needle and haystack,
\* also for needles with characters of more than one byte; the part of the
\* needle still looked for only gets shorter along the haystack, and once it
\* is empty the rest of the haystack does not change the result
C37_AlwaysReturns ==
    WordCalled =>
        /\ hwResult.tag = "Returned"
        /\ hwResult.val \in BOOLEAN
        /\ \A k \in 1..Len(hwHaystack) :
              LET before == hidden_word_scan(hwNeedle, SubSeq(hwHaystack, 1, k - 1))
                  after == hidden_word_scan(hwNeedle, SubSeq(hwHaystack, 1, k))
              IN  /\ Len(after.rest) <= Len(before.rest)
                  /\ before.rest = <<>> => hwResult.val = TRUE

(***************************************************************************)
(* The conversions on their own: one call of parse_dollars, of             *)
(* Money::from_str or of Money::try_from on an input drawn from every text *)
(* of at most MaxTextLen characters over MoneyAlphabet (MaxPriceLen for   *)
(* the price of a scope), the texts of tests::test_parse_dollars and of    *)
(* the doc comments, price strings of the form "$X.YZ" and the texts of    *)
(* whole-cent amounts.                                                     *)
(***************************************************************************)
MaxTextLen == 3
MaxPriceLen == 2

MoneyAlphabet ==
    {"0", "5", ".", ",", "$", " ", "-", "U", "s", "d", "x"} \cup OtherNumerals

\* tests::test_parse_dollars, the doc comments of parse_dollars and
\* IgnoreComma
ExampleTexts ==
    { <<"$", "3", "1", "2", ".", "0", "4">>,
      <<"8", ".", "8", ".", "4", ".", "4">>,
      <<"4", "2">>,
      <<"$", "4", "2", ".", "5", "6", "7">>,
      <<"3", "1", "2", ".", "0", "3">>,
      <<"3", "1", "2", ".", "0", "0", "9">>,
      <<"1", "3", ",", "0", "9", "6", ",", "3", "4", "0", ".", "3">> }

\* the decimal numeral of a natural number
RECURSIVE decimal_digits(_)
decimal_digits(n) ==
    IF n < 10 THEN <<AsciiDigits[n + 1]>>
    ELSE Append(decimal_digits(n \div 10), AsciiDigits[(n % 10) + 1])

\* a digit run with a ',' before every group of three digits from the right
RECURSIVE group_thousands(_)
group_thousands(digits) ==
    IF Len(digits) <= 3 THEN digits
    ELSE group_thousands(SubSeq(digits, 1, Len(digits) - 3))
         \o <<",">> \o SubSeq(digits, Len(digits) - 2, Len(digits))

\* the price strings "$X.YZ": X, Y, Z, with or without '$', with or without
\* thousands separators, X with or without leading zeros
PriceDollars == {0, 7, 42, 312, 1234, 13096340}
CentDigits == {0, 4, 9}
PriceShapes ==
    [x : PriceDollars, y : CentDigits, z : CentDigits,
     symbol : BOOLEAN, commas : BOOLEAN, zeros : BOOLEAN]

whole_part(p) ==
    (IF p.zeros THEN <<"0", "0">> ELSE <<>>)
    \o (IF p.commas THEN group_thousands(decimal_digits(p.x))
        ELSE decimal_digits(p.x))

price_text(p) ==
    (IF p.symbol THEN <<"$">> ELSE <<>>)
    \o whole_part(p) \o <<".">> \o decimal_digits(p.y) \o decimal_digits(p.z)

WellFormedTexts == {price_text(p) : p \in PriceShapes}
DigitOnlyTexts ==
    {whole_part(p) : p \in {q \in PriceShapes : ~q.commas /\ ~q.symbol}}

\* the amount of a whole number of cents
cents_amount(cents) == normalise([mant |-> cents, scale |-> 2])

\* the cents of an amount with at most two fraction digits
cents_of(amount) ==
    IF amount.scale = 0 THEN 100 * amount.mant
    ELSE IF amount.scale = 1 THEN 10 * amount.mant
    ELSE amount.mant

CentAmounts == {0, 1, 10, 99, 100, 501, 31204, 123456}
WholeCentMoneys == {Money(USD, cents_amount(c)) : c \in CentAmounts}

\* The canonical text form of a Money: the currency as Display writes it, a
\* space, and the amount with two fraction digits ("USD 312.04").
canonical_text(m) ==
    display_currency(m.currency) \o <<" ">>
    \o decimal_digits(cents_of(m.amount) \div 100) \o <<".">>
    \o decimal_digits((cents_of(m.amount) % 100) \div 10)
    \o decimal_digits(cents_of(m.amount) % 10)

CanonicalTexts == {canonical_text(m) : m \in WholeCentMoneys}

ShapedTexts ==
    ExampleTexts \cup WellFormedTexts \cup DigitOnlyTexts \cup CanonicalTexts

MoneyTexts == SeqsUpTo(MoneyAlphabet, MaxTextLen) \cup ShapedTexts

\* values of itemprop="price"
PriceTexts == SeqsUpTo(MoneyAlphabet, MaxPriceLen) \cup ShapedTexts

\* values of itemprop="priceCurrency"
CurrencyTexts ==
    { <<"U", "S", "D">>,
      <<"U", "s">>,
      <<"U", ".", "S", ".">>,
      <<"$">>,
      <<"x">>,
      <<"u", "s", "d", "x">> }

Optional(S) == {None} \cup {Some(v) : v \in S}

TextSource(t) == [kind |-> "text", text |-> t]

MoneySources ==
    {TextSource(t) : t \in MoneyTexts}
    \cup {Scope(p, c) : p \in Optional(PriceTexts), c \in Optional(CurrencyTexts)}

InitMoney ==
    /\ SearchStart
    /\ ExtrasUnused
    /\ RdapUnused
    /\ WordUnused
    /\ source \in MoneySources
    /\ money = NotRun

\* parse_dollars(text)
CallParseDollars ==
    /\ money = NotRun
    /\ source.kind = "text"
    /\ money' = [op |-> "parse_dollars", out |-> parse_dollars(source.text)]
    /\ UNCHANGED <<source, search, rdapVars, wordVars, extras>>

\* text.parse::<Money>()
CallFromStr ==
    /\ money = NotRun
    /\ source.kind = "text"
    /\ money' = [op |-> "from_str", out |-> from_str(source.text)]
    /\ UNCHANGED <<source, search, rdapVars, wordVars, extras>>

\* Money::try_from(scope)
CallTryFrom ==
    /\ money = NotRun
    /\ source.kind = "scope"
    /\ money' = [op |-> "try_from", out |-> try_from(source)]
    /\ UNCHANGED <<source, search, rdapVars, wordVars, extras>>

NextMoney ==
    \/ CallParseDollars
    \/ CallFromStr
    \/ CallTryFrom

SpecMoney == InitMoney /\ [][NextMoney]_vars

(***************************************************************************)
(* Properties of the conversions.                                          *)
(***************************************************************************)
\* a conversion ran, and which
Converted(op) == money # NotRun /\ money.op = op

\* the text the amount is read from, if there is one
TextIn == IF source.kind = "text" THEN Some(source.text) ELSE source.price

\* the amount the conversion produced, if it produced one
ParsedAmount ==
    IF money.op = "parse_dollars" THEN money.out
    ELSE IF money.out.tag = "Ok" THEN Some(money.out.val.amount)
    ELSE None

DotCount(t) == Cardinality({k \in 1..Len(t) : t[k] = "."})
NumeralCount(t) == Cardinality({k \in 1..Len(t) : is_numeric(t[k])})

\* the whitespace-separated tokens of a text: its maximal runs of
\* non-whitespace characters
Tokens(t) ==
    {SubSeq(t, i, j) : <<i, j>> \in
        {r \in (1..Len(t)) \X (1..Len(t)) :
            /\ r[1] <= r[2]
            /\ \A k \in r[1]..r[2] : ~is_whitespace(t[k])
            /\ r[1] = 1 \/ is_whitespace(t[r[1] - 1])
            /\ r[2] = Len(t) \/ is_whitespace(t[r[2] + 1])}}

\* C17: parse_dollars yields absence whenever the characters it keeps
\* (numerals and '.') form an empty run or hold more than one decimal point,
\* as for "8.8.4.4"; Money::from_str fails with an error when no
\* whitespace-separated token of the text parses.
C17_MalformedIsAbsent ==
    /\ (Converted("parse_dollars")
        /\ (DotCount(source.text) > 1
            \/ DotCount(source.text) + NumeralCount(source.text) = 0))
        => money.out = None
    /\ (Converted("from_str")
        /\ \A token \in Tokens(source.text) : parse_dollars(token) = None)
        => money.out = Err("failed to find price")

C17_Witness ==
    /\ Converted("parse_dollars")
    /\ source.text = <<"8", ".", "8", ".", "4", ".", "4">>
    /\ money.out = None

\* C18: for every price string "$X.YZ" (X a non-empty digit run, Y and Z
\* digits), with or without the '$' and with or without thousands separators
\* in X, the parser recovers exactly 100*X + 10*Y + Z cents; a digit-only
\* string "X" recovers X.00.
C18_WellFormedPriceRecovered ==
    (/\ money # NotRun
     /\ TextIn.some
     /\ TextIn.val \in WellFormedTexts \cup DigitOnlyTexts) =>
        \A p \in PriceShapes :
            /\ TextIn = Some(price_text(p))
                => ParsedAmount = Some(cents_amount(100 * p.x + 10 * p.y + p.z))
            /\ (TextIn = Some(whole_part(p)) /\ ~p.commas)
                => ParsedAmount = Some(cents_amount(100 * p.x))

C18_Witness ==
    /\ Converted("parse_dollars")
    /\ source.text = <<"$", "1", ",", "2", "3", "4", ".", "4", "9">>
    /\ money.out = Some([mant |-> 123449, scale |-> 2])

\* C19: every Money that Money::from_str or Money::try_from produces has a
\* non-negative amount, and a text without a digit (or a scope without a
\* price) produces no Money at all, never one of amount 0.
C19_NoFabricatedMoney ==
    (Converted("from_str") \/ Converted("try_from")) =>
        /\ money.out.tag = "Ok" => money.out.val.amount.mant >= 0
        /\ (~TextIn.some
            \/ \A k \in 1..Len(TextIn.val) : ~is_ascii_digit(TextIn.val[k]))
            => money.out.tag = "Err"

C19_Witness ==
    /\ Converted("from_str")
    /\ source.text = <<"-", "5">>
    /\ money.out = Ok(Money(USD, [mant |-> 5, scale |-> 0]))

ScopeWithCurrency ==
    /\ Converted("try_from")
    /\ source.price.some
    /\ source.priceCurrency.some

\* the priceCurrency, lower-cased and reduced to its letters, is in the table
CurrencyInTable == from_abbreviation(source.priceCurrency.val).some

\* C36 as stated: with a priceCurrency outside the table the conversion of the
\* scope does not fail and the Money carries USD; with one in the table the
\* Money carries the mapped currency and the amount parsed from price
C36_UnknownCurrencyNeverFails ==
    ScopeWithCurrency =>
        IF CurrencyInTable
        THEN money.out.tag = "Ok"
                => /\ money.out.val.currency = from_abbreviation(source.priceCurrency.val).val
                   /\ Some(money.out.val.amount) = parse_dollars(source.price.val)
        ELSE /\ money.out.tag = "Ok"
             /\ money.out.val.currency = USD

\* C36, amended: with a priceCurrency outside the table the outcome is that
\* of reading the price as free text: an error exactly when no
\* whitespace-separated token of the price parses, else a Money with USD and
\* the amount of a token; with one in the table the outcome is an error
\* exactly when the whole price does not parse, else a Money with the mapped
\* currency and the amount of the whole price
C36_UnknownCurrencyFallsBack ==
    ScopeWithCurrency =>
        IF CurrencyInTable
        THEN IF parse_dollars(source.price.val).some
             THEN money.out = Ok(Money(from_abbreviation(source.priceCurrency.val).val,
                                       parse_dollars(source.price.val).val))
             ELSE money.out.tag = "Err"
        ELSE /\ money.out = from_str(source.price.val)
             /\ money.out.tag = "Err"
                   <=> \A tok \in Tokens(source.price.val) : ~parse_dollars(tok).some
             /\ money.out.tag = "Ok"
                   => /\ money.out.val.currency = USD
                      /\ \E tok \in Tokens(source.price.val) :
                            parse_dollars(tok) = Some(money.out.val.amount)

\* a scope whose priceCurrency is outside the table was converted to a Money
C36_Witness ==
    /\ ScopeWithCurrency
    /\ ~CurrencyInTable
    /\ money.out.tag = "Ok"
    /\ money.out.val.currency = USD

(***************************************************************************)
(* A Product::by_id call on its own: the request is sent, the response     *)
(* (or the failure) arrives, the body is read, the page is parsed and the  *)
(* fields are extracted.  The page is drawn from every combination of at   *)
(* most MaxNodes title children, of seller links, feedback texts and       *)
(* price scopes.                                                           *)
(***************************************************************************)
MaxNodes == 2

ItemIds == {101}

TitleChildren == {"element", "blank", "text"}
Titles == Optional(SeqsUpTo(TitleChildren, MaxNodes))

\* the a[href] links under .si-content, each with what RE_USR captures on
\* its href
LinkLists ==
    { <<>>,
      <<None>>,
      <<Some("alice")>>,
      <<None, Some("bob")>>,
      <<Some("alice"), Some("bob")>>,
      <<Some("bob"), None, Some("alice")>> }
\* #si-fb: missing, without a percentage, with one
FeedbackTexts == {None, Some(None), Some(Some(<<"9", "9", ".", "5">>))}
Sellers == Optional({SellerInfo(l, f) : l \in LinkLists, f \in FeedbackTexts})

\* the scopes of a price element: two that convert, one that does not
PriceScopes ==
    { Scope(Some(<<"$", "5", ".", "5", "0">>), None),
      Scope(Some(<<"5">>), Some(<<"U", "S", "D">>)),
      Scope(Some(<<"x">>), None) }

ItemPages ==
    {ItemPage(t, sl, m, v) : t \in Titles, sl \in Sellers,
                             m \in Optional(PriceScopes), v \in Optional(PriceScopes)}

ItemResponses == {RespNetErr, RespBodyErr} \cup ItemPages

restOfById == <<search, rdapVars, wordVars, moneyVars, scopeVars, getVars, twoVars, megaVars>>

InitById ==
    /\ SearchStart
    /\ RdapUnused
    /\ WordUnused
    /\ MoneyUnused
    /\ ScopeUnused
    /\ GetUnused
    /\ TwoUnused
    /\ MegaUnused
    /\ itemResp \in ItemResponses
    /\ byIdPc = "start"
    /\ byIdReqs = <<>>
    /\ byIdOut = NotRun

\* client.0.get(link).send()
ByIdSend(id) ==
    /\ byIdPc = "start"
    /\ byIdReqs' = Append(byIdReqs, id)
    /\ byIdPc' = "sent"
    /\ UNCHANGED <<itemResp, byIdOut, restOfById>>

\* .await?: the response arrives, or the error is returned
ByIdSendDone ==
    /\ byIdPc = "sent"
    /\ IF itemResp.net = "send failed"
          THEN /\ byIdOut' = by_id(byIdReqs[1], itemResp)
               /\ byIdPc' = "returned"
          ELSE /\ byIdPc' = "body"
               /\ UNCHANGED byIdOut
    /\ UNCHANGED <<itemResp, byIdReqs, restOfById>>

\* response.text().await?, parse_html, the try block
ByIdBody ==
    /\ byIdPc = "body"
    /\ byIdOut' = by_id(byIdReqs[1], itemResp)
    /\ byIdPc' = "returned"
    /\ UNCHANGED <<itemResp, byIdReqs, restOfById>>

NextById ==
    \/ \E id \in ItemIds : ByIdSend(id)
    \/ ByIdSendDone
    \/ ByIdBody

SpecById == InitById /\ [][NextById]_vars

(***************************************************************************)
(* Properties of a Product::by_id call.                                    *)
(***************************************************************************)
ByIdReturned == byIdPc = "returned"

\* the page has a title anchor with a text child that does not trim to
\* nothing
HasTitleText ==
    /\ itemResp.net = "ok"
    /\ itemResp.title.some
    /\ \E k \in 1..Len(itemResp.title.val) : itemResp.title.val[k] = "text"

\* the page has a seller region with a link to a user
SellerLocated ==
    /\ itemResp.seller.some
    /\ \E k \in 1..Len(itemResp.seller.val.links) : itemResp.seller.val.links[k].some

\* the seller region has a feedback percentage
FeedbackLocated ==
    /\ itemResp.seller.val.fb.some
    /\ itemResp.seller.val.fb.val.some

\* the page has a price element
PriceLocated == itemResp.mainPrice.some \/ itemResp.viPrice.some

\* C21: Product::by_id returns an error if and only if the request or the
\* reading of its body fails, or no non-empty title text is found under
\* the title anchor; with the title found it returns a record whatever the
\* seller and price regions hold, each field that could not be located
\* being absent.
C21_ErrorOnlyWithoutTitle ==
    ByIdReturned =>
        /\ byIdOut.tag = "Err" <=> ~HasTitleText
        /\ byIdOut.tag = "Ok" =>
              /\ ~SellerLocated => byIdOut.val.seller = None
              /\ ~PriceLocated => byIdOut.val.price = None

C21_Witness ==
    /\ ByIdReturned
    /\ HasTitleText
    /\ ~itemResp.seller.some
    /\ ~PriceLocated
    /\ byIdOut = Ok([name |-> 101, seller |-> None, price |-> None, sponsored |-> None])

\* C22: the fields are extracted independently: on every page that differs
\* from the one fetched only in the seller region the price extracted is
\* the same, on every page that differs only in the price region the
\* seller extracted is the same, and a seller without a feedback value is
\* present with feedback absent.
C22_FieldsIndependent ==
    (ByIdReturned /\ byIdOut.tag = "Ok") =>
        /\ \A sl \in Sellers :
              by_id(byIdReqs[1], [itemResp EXCEPT !.seller = sl]).val.price
                  = byIdOut.val.price
        /\ \A m \in Optional(PriceScopes), v \in Optional(PriceScopes) :
              by_id(byIdReqs[1],
                    [itemResp EXCEPT !.mainPrice = m, !.viPrice = v]).val.seller
                  = byIdOut.val.seller
        /\ (SellerLocated /\ ~FeedbackLocated) =>
              /\ byIdOut.val.seller.some
              /\ byIdOut.val.seller.val.feedback = None

C22_Witness ==
    /\ ByIdReturned
    /\ itemResp.net = "ok"
    /\ itemResp.seller.some
    /\ ~SellerLocated
    /\ byIdOut.tag = "Ok"
    /\ byIdOut.val.seller = None
    /\ byIdOut.val.price = Some(Money(USD, [mant |-> 55, scale |-> 1]))

\* a by_id call sends one request, whatever the response
ByIdOneRequest ==
    /\ Len(byIdReqs) <= 1
    /\ byIdPc # "start" => Len(byIdReqs) = 1

(***************************************************************************)
(* The requests of a Product::search call.                                 *)
(***************************************************************************)
\* the detail requests sent for the ids of page p, in order
RequestsOf(p) == SelectSeq(detailReqs, LAMBDA r : r.page = p)

\* C23: each Product::by_id call sends exactly one request and never
\* retries, also when the request fails; each id of a listing page is
\* detail-fetched exactly once, so a fully consumed page has as many detail
\* requests as ids.
C23_OneRequestPerId ==
    /\ Len(detailReqs) - Len(detailDone) \in {0, 1}
    /\ \A p \in Pages :
          (PageOk(p) /\ PageConsumed(p)) =>
              /\ Len(RequestsOf(p)) = Len(PageIds(p))
              /\ \A k \in 1..Len(PageIds(p)) : RequestsOf(p)[k].id = PageIds(p)[k].id

C23_Witness ==
    \E p \in Pages :
        /\ PageOk(p)
        /\ PageConsumed(p)
        /\ Len(PageIds(p)) = 2
        /\ Len(RequestsOf(p)) = 2
        /\ \E i \in ItemsOf(p) : out[i].tag = "Err"

\* C28: once the consumer has dropped the stream, no listing or detail request
\* is started for the call, no response of a fetch is consumed and nothing is
\* emitted: the fetch in flight at the drop never makes another step
C28_DropCancels ==
    [][pc = "dropped" => UNCHANGED <<pc, listReqs, detailReqs, listResp, detailDone,
                                     futRes, out, outFrom>>]_vars

\* the stream is dropped while a detail fetch of the second page is in flight
C28_Witness ==
    /\ pc = "dropped"
    /\ Len(detailReqs) > Len(detailDone)
    /\ Len(listReqs) = 2
    /\ out # <<>>

\* C30: the k-th listing request of the call carries page number k, the cursor
\* is one past the number of listing requests made, and the crawl is over only
\* when a termination condition fired: a failed flag check or a listing page
\* that could not be fetched or parsed
C30_CursorCountsPages ==
    /\ \A k \in 1..Len(listReqs) : listReqs[k] = k
    /\ cursor = FirstPage + Len(checkRead)
    /\ Len(listReqs) <= Len(checkRead)
    /\ pc = "done"
          => \/ checkRead[Len(checkRead)] = FALSE
             \/ /\ Len(listResp) = Len(listReqs)
                /\ parse_listing(listResp[Len(listResp)]).tag = "Err"

\* the third listing request is in flight after two pages were read
C30_Witness ==
    /\ pc = "listing"
    /\ Len(listReqs) = 3
    /\ listReqs[3] = 3
    /\ Len(listResp) = 2

\* C32: nothing is requested before the first poll; when the listing request
\* of page p + 1 has been sent, page p was read, each of its ids was fetched
\* once and each item was handed to the consumer; the ids the stream holds
\* are those of the current page
C32_DemandDriven ==
    /\ pc = "idle" /\ cursor = FirstPage
          => listReqs = <<>> /\ detailReqs = <<>> /\ out = <<>>
    /\ \A p \in 1..(Len(listReqs) - 1) :
          /\ p \in Pages
          /\ PageOk(p)
          /\ PageConsumed(p)
          /\ Len(RequestsOf(p)) = Len(PageIds(p))
          /\ Len(detailDone) >= Len(RequestsOf(p))
    /\ hasInner => page \in Pages /\ ids = PageIds(page)
    /\ \A k \in 1..Len(detailReqs) : detailReqs[k].page = Len(listReqs)
                                         \/ detailReqs[k].page \in 1..(Len(listReqs) - 1)

\* the listing request of the second page is in flight after a first page of
\* two ids
C32_Witness ==
    /\ pc = "listing"
    /\ Len(listReqs) = 2
    /\ Len(PageIds(1)) = 2
    /\ Len(out) = 2

\* requests of the call that were sent and whose response was not yet read
ListingsInFlight == Len(listReqs) - Len(listResp)
DetailsInFlight == Len(detailReqs) - Len(detailDone)

\* C33: at most one request of the call is in flight: a listing request only
\* while the page closure waits for it, a detail request only while the id
\* closure waits for it, never two detail requests and never a detail request
\* together with a listing request; the client lock, held for the time of a
\* request, therefore has one holder at most and nobody waiting
C33_OneRequestInFlight ==
    /\ ListingsInFlight \in {0, 1}
    /\ DetailsInFlight \in {0, 1}
    /\ ListingsInFlight + DetailsInFlight <= 1
    /\ ListingsInFlight = 1 => pc \in {"listing", "dropped"}
    /\ DetailsInFlight = 1 => pc \in {"detail", "dropped"} /\ futRes = Pending
    /\ pc = "listing" => ListingsInFlight = 1
    /\ pc = "detail" /\ futRes = Pending => DetailsInFlight = 1

\* the second detail request of the second page is in flight, all earlier
\* requests answered
C33_Witness ==
    /\ pc = "detail"
    /\ DetailsInFlight = 1
    /\ Len(listReqs) = 2
    /\ Len(RequestsOf(2)) = 2
    /\ Len(detailDone) >= 2

(***************************************************************************)
(* schema_org::Scope over a document tree.  A tree is the sequence of its  *)
(* nodes in document order (a node comes after its parent and before the   *)
(* next sibling of any of its ancestors); node 1 is the root.  A node is   *)
(* an element with its itemprop, itemtype and content attributes, or a     *)
(* text node.  A Scope is the index of its node.                           *)
(***************************************************************************)
Element(parent, itemprop, itemtype, content) ==
    [parent |-> parent, element |-> TRUE, itemprop |-> itemprop,
     itemtype |-> itemtype, content |-> content, text |-> <<>>]

TextNode(parent, text) ==
    [parent |-> parent, element |-> FALSE, itemprop |-> None,
     itemtype |-> None, content |-> None, text |-> text]

\* whether node d is below node a
RECURSIVE is_below(_, _, _)
is_below(tree, a, d) ==
    IF tree[d].parent = 0 THEN FALSE
    ELSE tree[d].parent = a \/ is_below(tree, a, tree[d].parent)

\* the direct children of node n only
children_only(tree, n) ==
    SelectSeq([i \in 1..Len(tree) |-> i], LAMBDA i : tree[i].parent = n)

\* NodeRef::descendants: the nodes below n, in tree order, n itself left out
descendants(tree, n) ==
    SelectSeq([i \in 1..Len(tree) |-> i], LAMBDA i : is_below(tree, n, i))

\* Scope::get_node_property
get_node_property(node, key) == IF node.element THEN node[key] ELSE None

\* Scope::node_property_eq
node_property_eq(node, key, value) ==
    get_node_property(node, key) = Some(value)

\* Scope::select_nodes_by_property_and_value
select_nodes_by_property_and_value(tree, n, key, value) ==
    SelectSeq(descendants(tree, n), LAMBDA i : node_property_eq(tree[i], key, value))

\* NodeRef::text_contents: the text nodes at and below n, concatenated
RECURSIVE concat_texts(_, _)
concat_texts(tree, nodes) ==
    IF nodes = <<>> THEN <<>>
    ELSE tree[Head(nodes)].text \o concat_texts(tree, Tail(nodes))

text_contents(tree, n) == concat_texts(tree, <<n>> \o descendants(tree, n))

\* the value of a node that reads the text even when content is there
node_value_text_first(tree, i) ==
    IF text_contents(tree, i) # <<>> THEN text_contents(tree, i)
    ELSE IF get_node_property(tree[i], "content").some
    THEN get_node_property(tree[i], "content").val
    ELSE <<>>

\* get_node_property(&n, "content").unwrap_or_else(|| n.text_contents())
node_value(tree, i) ==
    IF get_node_property(tree[i], "content").some
    THEN get_node_property(tree[i], "content").val
    ELSE text_contents(tree, i)

\* Iterator::next
first_of(items) == IF items = <<>> THEN None ELSE Some(Head(items))

\* Scope::get_values
get_values(tree, n, prop) ==
    LET nodes == select_nodes_by_property_and_value(tree, n, "itemprop", prop)
    IN  [k \in 1..Len(nodes) |-> node_value(tree, nodes[k])]

\* Scope::get_value
get_value(tree, n, prop) == first_of(get_values(tree, n, prop))

\* Scope::select_prop
select_prop(tree, n, prop) ==
    first_of(select_nodes_by_property_and_value(tree, n, "itemprop", prop))

\* Scope::select_type
select_type(tree, n, item_type) ==
    first_of(select_nodes_by_property_and_value(tree, n, "itemtype", item_type))

\* Scope::find
find(tree, n, item_type) == select_type(tree, n, item_type)

\* a traversal that detaches the last node it visited
traversed_detaching(tree) ==
    IF Len(tree) > 1 THEN SubSeq(tree, 1, Len(tree) - 1) ELSE tree

\* the tree after a query: descendants() and attributes.borrow() only read
traversed(tree) == tree

(***************************************************************************)
(* The Scope queries on their own: up to MaxCalls calls of get_value,      *)
(* select_prop and find on one scope of one document, for one name.  The   *)
(* document is any tree of at most MaxTreeNodes nodes, or the document of  *)
(* tests::do_tests.                                                        *)
(***************************************************************************)
MaxTreeNodes == 3
MaxCalls == 2

\* the nodes that may hang below node `parent`
NodeChoices(parent) ==
    { TextNode(parent, <<"a">>),
      TextNode(parent, <<"b">>),
      Element(parent, None, None, None),
      Element(parent, Some("price"), None, None),
      Element(parent, Some("price"), None, Some(<<"4">>)),
      Element(parent, Some("reviews"), Some("Rating"), None) }

\* the elements a next node in document order may hang below: the last
\* node and its ancestors
RightPath(tree) ==
    {i \in 1..Len(tree) :
        tree[i].element /\ (i = Len(tree) \/ is_below(tree, i, Len(tree)))}

RECURSIVE TreesUpTo(_)
TreesUpTo(n) ==
    IF n = 1 THEN {<<Element(0, None, None, None)>>}
    ELSE LET smaller == TreesUpTo(n - 1)
         IN  smaller \cup
             UNION {{Append(t, c) : c \in UNION {NodeChoices(q) : q \in RightPath(t)}}
                    : t \in smaller}

\* the document of tests::do_tests
ExampleTree ==
    << Element(0, None, None, None),
       Element(1, None, Some("Offer"), None),
       Element(2, Some("name"), None, None),
       TextNode(3, <<"B", "l", "e", "n", "d">>),
       Element(2, Some("price"), None, None),
       TextNode(5, <<"$", "1", "9", ".", "9", "5">>),
       Element(2, Some("reviews"), Some("Rating"), None),
       Element(7, None, None, None),
       Element(7, Some("ratingValue"), None, Some(<<"4">>)),
       Element(7, Some("bestRating"), None, Some(<<"5">>)),
       TextNode(7, <<"B", "a", "s", "e", "d", " ", "o", "n", " ">>),
       Element(7, Some("ratingCount"), None, None),
       TextNode(12, <<"2", "5">>),
       TextNode(7, <<" ", "u", "s", "e", "r">>) >>

AskedNames == {"price", "reviews", "Rating"}
ExampleNames == {"name", "price", "reviews", "ratingValue", "ratingCount", "Offer"}

\* a document, the node of a scope in it, a name
ScopeQueries ==
    {<<t, i, a>> : t \in TreesUpTo(MaxTreeNodes), i \in 1..MaxTreeNodes, a \in AskedNames}
    \cup {<<ExampleTree, i, a>> : i \in {1, 2, 7}, a \in ExampleNames}

restOfScope == <<search, rdapVars, wordVars, moneyVars, byIdVars, getVars, twoVars, megaVars>>

InitScope ==
    /\ SearchStart
    /\ RdapUnused
    /\ WordUnused
    /\ MoneyUnused
    /\ ByIdUnused
    /\ GetUnused
    /\ TwoUnused
    /\ MegaUnused
    /\ \E q \in ScopeQueries :
          /\ q[2] <= Len(q[1])
          /\ q[1][q[2]].element
          /\ dom = q[1]
          /\ scopeAt = q[2]
          /\ asked = q[3]
    /\ answers = <<>>

\* scope.get_value(name)
CallGetValue ==
    /\ Len(answers) < MaxCalls
    /\ answers' = Append(answers, [op |-> "get_value", out |-> get_value(dom, scopeAt, asked)])
    /\ dom' = traversed(dom)
    /\ UNCHANGED <<scopeAt, asked, restOfScope>>

\* scope.select_prop(name)
CallSelectProp ==
    /\ Len(answers) < MaxCalls
    /\ answers' = Append(answers, [op |-> "select_prop", out |-> select_prop(dom, scopeAt, asked)])
    /\ dom' = traversed(dom)
    /\ UNCHANGED <<scopeAt, asked, restOfScope>>

\* Scope::find(node, item_type)
CallFind ==
    /\ Len(answers) < MaxCalls
    /\ answers' = Append(answers, [op |-> "find", out |-> find(dom, scopeAt, asked)])
    /\ dom' = traversed(dom)
    /\ UNCHANGED <<scopeAt, asked, restOfScope>>

NextScope == CallGetValue \/ CallSelectProp \/ CallFind

SpecScope == InitScope /\ [][NextScope]_vars

(***************************************************************************)
(* Properties of the Scope queries.  In document order the nodes below     *)
(* node n are the run n+1..m of nodes whose parent is not before n.        *)
(***************************************************************************)
SubtreeEnd(n) ==
    CHOOSE m \in n..Len(dom) :
        /\ \A i \in (n + 1)..m : dom[i].parent >= n
        /\ m = Len(dom) \/ dom[m + 1].parent < n

\* the elements below the scope whose attribute `key` is the name asked
Matching(key) ==
    {i \in (scopeAt + 1)..SubtreeEnd(scopeAt) :
        dom[i].element /\ dom[i][key] = Some(asked)}

FirstMatching(key) == CHOOSE i \in Matching(key) : \A j \in Matching(key) : i <= j

RECURSIVE TextOfRange(_, _)
TextOfRange(lo, hi) ==
    IF lo > hi THEN <<>> ELSE dom[lo].text \o TextOfRange(lo + 1, hi)

\* the content attribute of node i if it has one, otherwise its text
ValueAt(i) ==
    IF dom[i].content.some THEN dom[i].content.val
    ELSE TextOfRange(i, SubtreeEnd(i))

\* what the k-th query has to return
Expected(k) ==
    LET key == IF answers[k].op = "find" THEN "itemtype" ELSE "itemprop"
    IN  IF Matching(key) = {} THEN None
        ELSE IF answers[k].op = "get_value" THEN Some(ValueAt(FirstMatching(key)))
        ELSE Some(FirstMatching(key))

\* C24: Scope::get_value returns the value of the first node in document
\* order among all descendants of the scope's node, at any depth, whose
\* itemprop equals the name (its content attribute if it has one, otherwise
\* its concatenated text), and absent iff there is none; Scope::find and
\* select_prop return the first matching descendant in the same order.
C24_FirstDescendantInOrder ==
    \A k \in 1..Len(answers) : answers[k].out = Expected(k)

C24_Witness ==
    /\ dom = ExampleTree
    /\ scopeAt = 2
    /\ asked = "ratingCount"
    /\ answers # <<>>
    /\ answers[1] = [op |-> "get_value", out |-> Some(<<"2", "5">>)]

NotFound == 404

TransportFailure == [sent |-> FALSE]
HttpResponse(status, body) == [sent |-> TRUE, status |-> status, body |-> body]

BodyNotJson == [json |-> FALSE, events |-> None]
BodyJson(events) == [json |-> TRUE, events |-> events]

\* res.json::<DomainRecord>(): the body has to be JSON with the member
\* `events`
json_record(body) ==
    IF body.json /\ body.events.some
    THEN Ok([events |-> body.events.val])
    ELSE Err("the JSON could not be read or parsed")

\* get with the 404 handed on as an error
get_not_found_is_error(resp) ==
    IF ~resp.sent THEN Err("request failed")
    ELSE IF resp.status = NotFound THEN Err("not found")
    ELSE IF json_record(resp.body).tag = "Ok"
    THEN Ok(Some(json_record(resp.body).val))
    ELSE json_record(resp.body)

\* DomainRecord::get
get(resp) ==
    IF ~resp.sent THEN Err("request failed")
    ELSE IF resp.status = NotFound THEN Ok(None)
    ELSE IF json_record(resp.body).tag = "Ok"
    THEN Ok(Some(json_record(resp.body).val))
    ELSE json_record(resp.body)

HttpStatuses == {200, 403, 404, 500}
HttpBodies ==
    {BodyNotJson, BodyJson(None)} \cup {BodyJson(Some(l)) : l \in EventLists}
HttpResponses ==
    {TransportFailure} \cup {HttpResponse(st, b) : st \in HttpStatuses, b \in HttpBodies}

restOfGet == <<search, rdapVars, wordVars, moneyVars, byIdVars, scopeVars, twoVars, megaVars>>

InitGet ==
    /\ SearchStart
    /\ RdapUnused
    /\ WordUnused
    /\ MoneyUnused
    /\ ByIdUnused
    /\ ScopeUnused
    /\ TwoUnused
    /\ MegaUnused
    /\ httpResp \in HttpResponses
    /\ getPc = "start"
    /\ getOut = NotRun

\* client.0.get(url).send().await?
GetSend ==
    /\ getPc = "start"
    /\ IF httpResp.sent
          THEN /\ getPc' = "response"
               /\ UNCHANGED getOut
          ELSE /\ getPc' = "returned"
               /\ getOut' = get(httpResp)
    /\ UNCHANGED <<httpResp, restOfGet>>

\* the status check and res.json().await?
GetRead ==
    /\ getPc = "response"
    /\ getPc' = "returned"
    /\ getOut' = get(httpResp)
    /\ UNCHANGED <<httpResp, restOfGet>>

NextGet == GetSend \/ GetRead

SpecGet == InitGet /\ [][NextGet]_vars

GetReturned == getPc = "returned"

\* C26: DomainRecord::get maps an HTTP 404 response to the non-error
\* outcome Ok(None), never an error and never a record, and maps a
\* transport failure to an error.
C26_NotFoundIsAbsent ==
    GetReturned =>
        /\ (httpResp.sent /\ httpResp.status = 404) => getOut = Ok(None)
        /\ ~httpResp.sent => getOut.tag = "Err"

C26_Witness ==
    /\ GetReturned
    /\ httpResp.sent
    /\ httpResp.status = 404
    /\ httpResp.body.events.some
    /\ getOut = Ok(None)

CallIds == {1, 2}
WorldItemIds == {11, 21, 23}

\* the stream a search call returns, before its first poll
NewCall ==
    [pc |-> "poll_outer", cursor |-> FirstPage, page |-> 0, ok |-> <<>>,
     ids |-> <<>>, idx |-> 1, listReqs |-> <<>>, out |-> <<>>]

\* one page counter for all calls: every call moves it, every call reads it
cursor_of_shared(cs, i) ==
    LET highest[k \in 0..Len(cs)] ==
            IF k = 0 THEN FirstPage ELSE Max(highest[k - 1], cs[k].cursor)
    IN  highest[Len(cs)]

\* iter(1..) is built inside search (ebay.rs:149): the range belongs to the
\* stream of the call
cursor_of(cs, i) == cs[i].cursor

\* the page closure up to its listing request (ebay.rs:150-171)
page_started(c, cur) ==
    LET flags == Append(c.ok, TRUE)
        checked == flag_check(flags[Len(flags)])
    IN  [c EXCEPT !.page = cur,
                  !.cursor = range_from_next(cur),
                  !.ok = flags,
                  !.listReqs = IF checked.tag = "Ok" THEN Append(c.listReqs, cur)
                               ELSE c.listReqs,
                  !.pc = IF checked.tag = "Ok" THEN "listing" ELSE "done"]

\* the page closure after the listing response (ebay.rs:171-234) and the
\* take_while / filter_map of its result (ebay.rs:236-240)
page_read(c, resp) ==
    LET r == parse_listing(resp)
    IN  IF r.tag = "Ok"
           THEN [c EXCEPT !.ok[Len(c.ok)] = FALSE,
                          !.ids = r.val,
                          !.idx = 1,
                          !.pc = take_while_ok(r)]
           ELSE [c EXCEPT !.out = c.out \o listing_error_items(r),
                          !.pc = take_while_ok(r)]

\* iter(ids) hands the next id to the id closure, or the page is finished
id_taken(c) ==
    IF c.idx > Len(c.ids) THEN [c EXCEPT !.pc = "poll_outer"]
    ELSE [c EXCEPT !.pc = "detail"]

\* the id closure (ebay.rs:209-229): by_id, the flag, the sponsored mark
id_fetched(c, resp) ==
    LET res == by_id(c.ids[c.idx].id, resp)
    IN  [c EXCEPT !.ok[Len(c.ok)] = IF res.tag = "Ok" THEN TRUE ELSE @,
                  !.out = c.out \o detail_items(res, c.ids[c.idx].sponsored),
                  !.idx = c.idx + 1,
                  !.pc = "poll_inner"]

\* a stream that yields nothing more, or has used up the pages of the model
call_finished(c, cur) == c.pc = "done" \/ (c.pc = "poll_outer" /\ cur > MaxPage)

\* one step of a stream between two await points, against the site w
poll_call(c, cur, w) ==
    CASE c.pc = "poll_outer" -> page_started(c, cur)
      [] c.pc = "listing"    -> page_read(c, w.listing[c.page])
      [] c.pc = "poll_inner" -> id_taken(c)
      [] c.pc = "detail"     -> id_fetched(c, w.detail[c.ids[c.idx].id])

RECURSIVE run_alone(_, _)
\* the stream of a call consumed to its end with no other call around
run_alone(c, w) ==
    IF call_finished(c, c.cursor) THEN c
    ELSE run_alone(poll_call(c, c.cursor, w), w)

\* what the site answers: a listing per page number and an item page per id,
\* at most one of the item pages failing
ItemPageMaps ==
    {d \in [WorldItemIds -> DetailResponses] :
        Cardinality({x \in WorldItemIds : d[x] = RespNetErr}) <= 1}

Worlds == [listing : [1..MaxPage -> ListingResponses], detail : ItemPageMaps]

restOfTwo == <<search, rdapVars, wordVars, moneyVars, byIdVars, scopeVars, getVars, megaVars>>

InitTwo ==
    /\ SearchStart /\ RdapUnused /\ WordUnused /\ MoneyUnused
    /\ ByIdUnused /\ ScopeUnused /\ GetUnused /\ MegaUnused
    /\ world \in Worlds
    /\ alone = run_alone(NewCall, world)
    /\ calls = [i \in CallIds |-> NewCall]

\* the consumer polls stream i at its outer stream: the next page closure starts
TwoNextPage(i) ==
    /\ calls[i].pc = "poll_outer"
    /\ ~call_finished(calls[i], cursor_of(calls, i))
    /\ calls' = [calls EXCEPT ![i] = poll_call(calls[i], cursor_of(calls, i), world)]
    /\ UNCHANGED <<world, alone, restOfTwo>>

\* the listing response of stream i arrives
TwoListing(i) ==
    /\ calls[i].pc = "listing"
    /\ calls' = [calls EXCEPT ![i] = poll_call(calls[i], cursor_of(calls, i), world)]
    /\ UNCHANGED <<world, alone, restOfTwo>>

\* stream i is polled at its inner stream
TwoNextId(i) ==
    /\ calls[i].pc = "poll_inner"
    /\ calls' = [calls EXCEPT ![i] = poll_call(calls[i], cursor_of(calls, i), world)]
    /\ UNCHANGED <<world, alone, restOfTwo>>

\* the item page of stream i arrives and the id closure returns
TwoDetail(i) ==
    /\ calls[i].pc = "detail"
    /\ calls' = [calls EXCEPT ![i] = poll_call(calls[i], cursor_of(calls, i), world)]
    /\ UNCHANGED <<world, alone, restOfTwo>>

NextTwo ==
    \/ \E i \in CallIds : TwoNextPage(i)
    \/ \E i \in CallIds : TwoListing(i)
    \/ \E i \in CallIds : TwoNextId(i)
    \/ \E i \in CallIds : TwoDetail(i)

SpecTwo == InitTwo /\ [][NextTwo]_vars

IsPrefix(s, t) == Len(s) <= Len(t) /\ \A k \in 1..Len(s) : s[k] = t[k]

\* C29: whatever the interleaving, each stream has emitted a prefix of what the
\* same call emits when it runs alone against the same responses, has asked
\* for a prefix of the same listing pages, and has emitted all of it when it
\* is finished
C29_CallsIndependent ==
    \A i \in CallIds :
        /\ IsPrefix(calls[i].out, alone.out)
        /\ IsPrefix(calls[i].listReqs, alone.listReqs)
        /\ call_finished(calls[i], calls[i].cursor) => calls[i].out = alone.out

\* both streams are in the middle of a detail fetch, on different pages, and
\* both have emitted an item
C29_Witness ==
    /\ calls[1].pc = "detail"
    /\ calls[2].pc = "detail"
    /\ calls[1].page = 1
    /\ calls[2].page = 2
    /\ calls[1].out # <<>>
    /\ calls[2].out # <<>>

\* ---------------------------------------------------------------------------
\* CPUMegaList::get (datacollect-core/src/modules/passmark.rs:43-60): a GET of
\* the page that sets the session cookie, then a GET of the data with the
\* X-Requested-With header, both through a client with a cookie store.
\* ---------------------------------------------------------------------------

MegaPageUrl == "https://www.cpubenchmark.net/CPU_mega_page.html"
MegaDataUrl == "https://www.cpubenchmark.net/data/"

MegaRequest(url, xhr, cookies) == [url |-> url, xhr |-> xhr, cookies |-> cookies]

\* send() ended in an error: no response
SendFailed(why) == [sent |-> FALSE, why |-> why]
\* send() ended in a response, whatever its status
SendAnswered(status, cookies, body) ==
    [sent |-> TRUE, status |-> status, cookies |-> cookies, body |-> body]

MegaNotJson == [json |-> FALSE, data |-> None]
MegaJson(data) == [json |-> TRUE, data |-> data]

\* the `?` on the send of the session page, with the error dropped
sent_or_return_ignoring(resp) == Ok("go on")

\* `.send().await?` (passmark.rs:45-49 and 51-56): an error of send ends the
\* call with that error, a response lets it go on
sent_or_return(resp) == IF resp.sent THEN Ok("go on") ELSE Err(resp.why)

\* res.json::<CPUMegaList>() (passmark.rs:58): JSON with the member `data`
json_mega_list(body) ==
    IF body.json /\ body.data.some
    THEN Ok([data |-> body.data.val])
    ELSE Err("the JSON could not be read or parsed")

MegaFailures == {SendFailed("connection refused"), SendFailed("timed out")}
MegaStatuses == {200, 403}
MegaCookies == {{}, {"session"}}
MegaBodies == {MegaNotJson, MegaJson(None), MegaJson(Some(<<>>)), MegaJson(Some(<<"AMD Ryzen 5 2600">>))}
SessionResponses ==
    MegaFailures \cup {SendAnswered(st, c, MegaNotJson) : st \in MegaStatuses, c \in MegaCookies}
DataResponses ==
    MegaFailures \cup {SendAnswered(st, {}, b) : st \in MegaStatuses, b \in MegaBodies}

restOfMega == <<search, rdapVars, wordVars, moneyVars, byIdVars, scopeVars, getVars, twoVars>>

InitMega ==
    /\ SearchStart /\ RdapUnused /\ WordUnused /\ MoneyUnused
    /\ ByIdUnused /\ ScopeUnused /\ GetUnused /\ TwoUnused
    /\ site \in [session : SessionResponses, data : DataResponses]
    /\ megaPc = "start"
    /\ megaReqs = <<>>
    /\ megaJar = {}
    /\ megaOut = NotRun

\* client.0.get(CPU_mega_page.html).send()
MegaSendSession ==
    /\ megaPc = "start"
    /\ megaReqs' = Append(megaReqs, MegaRequest(MegaPageUrl, FALSE, megaJar))
    /\ megaPc' = "session"
    /\ UNCHANGED <<site, megaJar, megaOut, restOfMega>>

\* .await? of the session request
MegaSessionDone ==
    /\ megaPc = "session"
    /\ LET r == sent_or_return(site.session)
       IN  IF r.tag = "Ok"
              THEN /\ megaPc' = "ready"
                   /\ megaJar' = IF site.session.sent
                                 THEN megaJar \cup site.session.cookies ELSE megaJar
                   /\ UNCHANGED megaOut
              ELSE /\ megaPc' = "returned"
                   /\ megaOut' = r
                   /\ UNCHANGED megaJar
    /\ UNCHANGED <<site, megaReqs, restOfMega>>

\* client.0.get(data/).header("X-Requested-With", "XMLHttpRequest").send()
MegaSendData ==
    /\ megaPc = "ready"
    /\ megaReqs' = Append(megaReqs, MegaRequest(MegaDataUrl, TRUE, megaJar))
    /\ megaPc' = "data"
    /\ UNCHANGED <<site, megaJar, megaOut, restOfMega>>

\* .await? of the data request
MegaDataDone ==
    /\ megaPc = "data"
    /\ LET r == sent_or_return(site.data)
       IN  IF r.tag = "Ok"
              THEN /\ megaPc' = "body"
                   /\ UNCHANGED megaOut
              ELSE /\ megaPc' = "returned"
                   /\ megaOut' = r
    /\ UNCHANGED <<site, megaReqs, megaJar, restOfMega>>

\* res.json().await? and Ok(json)
MegaBody ==
    /\ megaPc = "body"
    /\ megaPc' = "returned"
    /\ megaOut' = json_mega_list(site.data.body)
    /\ UNCHANGED <<site, megaReqs, megaJar, restOfMega>>

NextMega ==
    \/ MegaSendSession
    \/ MegaSessionDone
    \/ MegaSendData
    \/ MegaDataDone
    \/ MegaBody

SpecMega == InitMega /\ [][NextMega]_vars

\* C31: the first request of CPUMegaList::get is the session page, without
\* the XHR header; the data request, with the header, is the second and last
\* and is sent only after the send of the session request has returned a
\* response; when that send fails the call returns its error and the data
\* request is never sent
C31_SessionBeforeData ==
    /\ Len(megaReqs) <= 2
    /\ Len(megaReqs) >= 1
          => megaReqs[1].url = MegaPageUrl /\ ~megaReqs[1].xhr
    /\ Len(megaReqs) = 2
          => /\ megaReqs[2].url = MegaDataUrl /\ megaReqs[2].xhr
             /\ site.session.sent
             /\ megaPc \in {"data", "body", "returned"}
             /\ megaReqs[2].cookies = site.session.cookies
    /\ megaPc \in {"start", "session", "ready"} => Len(megaReqs) = IF megaPc = "start" THEN 0 ELSE 1
    /\ ~site.session.sent /\ megaPc = "returned"
          => megaOut = Err(site.session.why) /\ Len(megaReqs) = 1

\* the session request failed and the call has returned
C31_Witness ==
    /\ megaPc = "returned"
    /\ ~site.session.sent
    /\ site.data.sent
    /\ megaOut.tag = "Err"

\* both requests were sent and the list was read
C31_WitnessBoth ==
    /\ megaPc = "returned"
    /\ Len(megaReqs) = 2
    /\ megaOut.tag = "Ok"

====
